---- MODULE Spec2Model ----
(***************************************************************************)
(* A model of yasuo-ozu/proc-debug:                                        *)
(*   - the cargo subcommand (src/cargo/main.rs): the file patching engine  *)
(*     (backup_and_modify, unmodify, modify_files_of_package, main and its *)
(*     rollback Guard) and the target selection (resolve_deps,             *)
(*     resolve_all_packages);                                              *)
(*   - the capture library (src/lib.rs): count, check_filter, proc_wrapper;*)
(*   - the attribute macro (src/macro/lib.rs): check_macro_kind.           *)
(* Each subsystem has its own specification over the shared variables.     *)
(***************************************************************************)
EXTENDS Integers, Sequences, FiniteSets, TLC

VARIABLES
    \* ---- file patching engine, src/cargo/main.rs ----
    disk,       \* the file system: a function from the existing paths to contents
    frame,      \* the running call of backup_and_modify / unmodify (or NoFrame)
    pc,         \* control location of main (or of the caller of the two functions)
    pkg_ids,    \* main: the selected packages, in order
    i,          \* main: index of the package being patched
    ret,        \* modify_files_of_package: its local Vec `ret`
    guard,      \* main: Guard.0, the recorded paths
    j,          \* Guard::drop: index of the path being restored
    pre,        \* history: the disk when the run started
    patched,    \* history: the paths for which backup_and_modify returned Some
    built,      \* history: the cargo check subprocess was started
    panicked,   \* history: main panicked
    rbFault,    \* history: a rename of the rollback hit an I/O error
    hist,       \* history: the last two completed calls of the two functions
    \* ---- target selection, src/cargo/main.rs ----
    g_deps,          \* Resolve: the dependency edges, a set of <<from, to>>
    g_proc,          \* PackageSet: the packages whose library is a proc-macro
    proc_filter,     \* the name filter
    unresolved_deps, \* resolve_deps: the frontier
    resolved_deps,   \* resolve_deps: the visited set
    result,          \* what resolve_all_packages returns
    rpc,             \* control location of resolve_all_packages
    \* ---- capture library, src/lib.rs ----
    counter,    \* COUNTER: absent (-1) or the value in the Mutex
    holder,     \* the thread holding the Mutex, 0 when free
    tpc,        \* per thread: control location in proc_wrapper / count
    tmp,        \* per thread: the value read by `*n += 1`
    seq_n,      \* per thread: `n`, the value count() returned
    ncalls,     \* per thread: the calls of proc_wrapper started
    env,        \* PROC_DEBUG_FLAGS
    stdout,     \* the blocks written to standard output
    stderr,     \* the blocks written to standard error
    last,       \* history: the last call of proc_wrapper that ended
    assigned,   \* history: how many calls got each sequence number
    exit_code,  \* the status std::process::exit was called with, -1 while running
    \* ---- Entry::check_filter on its own ----
    f_entry, f_args, f_n, f_res,
    \* ---- simplify_and_replace and unreplace on their own ----
    tr_tokens,  \* the token stream given to simplify_and_replace
    tr_depth,   \* its depth argument
    tr_out,     \* what simplify_and_replace returned
    tr_back,    \* what unreplace returned for tr_out
    tr_pc,      \* "in", "simplified", "unreplaced" ("off" in the other specifications)
    \* ---- one call of proc_wrapper, statement by statement ----
    c_in,       \* the arguments of the call, the thunk's behaviour and `n`
    c_env,      \* PROC_DEBUG_FLAGS
    c_pc,       \* control location in proc_wrapper ("off" in the other specifications)
    c_ret,      \* `ret`, what the thunk returned
    c_args,     \* `args`, what from_env returned
    c_output,   \* `output`, the classified tokens
    c_shown,    \* the tokens given to show_macro_output
    c_ev,       \* history: the thunk runs, the filter evaluations and the writes, in order
    c_res,      \* how the call ended and what it returned
    \* ---- the Filter Query the subcommand hands to the build ----
    s_cli,      \* Arguments: the --path values, --verbose and the keywords
    s_flags,    \* PROC_DEBUG_FLAGS as main sets it for the build
    s_pc        \* "cli", "env", "some", "none", "exit", "done" ("off" elsewhere)

fsVars == <<disk, frame, pc, pkg_ids, i, ret, guard, j, pre, patched, built,
            panicked, rbFault, hist>>
rsVars == <<g_deps, g_proc, proc_filter, unresolved_deps, resolved_deps, result, rpc>>
wrVars == <<counter, holder, tpc, tmp, seq_n, ncalls, env, stdout, stderr, last,
            assigned, exit_code>>
flVars == <<f_entry, f_args, f_n, f_res>>
trVars == <<tr_tokens, tr_depth, tr_out, tr_back, tr_pc>>
clVars == <<c_in, c_env, c_pc, c_ret, c_args, c_output, c_shown, c_ev, c_res>>
sbVars == <<s_cli, s_flags, s_pc>>

vars == <<fsVars, rsVars, wrVars, flVars, trVars, clVars, sbVars>>

nonFsVars == <<rsVars, wrVars, flVars, trVars, clVars, sbVars>>
nonRsVars == <<fsVars, wrVars, flVars, trVars, clVars, sbVars>>
nonWrVars == <<fsVars, rsVars, flVars, trVars, clVars, sbVars>>
nonFlVars == <<fsVars, rsVars, wrVars, trVars, clVars, sbVars>>
nonTrVars == <<fsVars, rsVars, wrVars, flVars, clVars, sbVars>>
nonClVars == <<fsVars, rsVars, wrVars, flVars, trVars, sbVars>>
nonSbVars == <<fsVars, rsVars, wrVars, trVars, clVars>>

(***************************************************************************)
(* Bounds, and the value of each subsystem's variables while another       *)
(* subsystem's specification runs.                                         *)
(***************************************************************************)
MaxDepEdges == 3        \* dependency edges of a graph
NThreads == 2           \* threads calling proc_wrapper
MaxCalls == 2           \* calls of proc_wrapper per thread
MaxPatterns == 2        \* --path options of a Filter Query
MaxSeq == 3             \* sequence numbers given to check_filter on its own
MaxTokens == 3          \* tokens at the top level of a truncated stream
MaxDepthArg == 3        \* depth arguments of simplify_and_replace

Threads == 1..NThreads

NoLast == [kind |-> "", n |-> 0, raw |-> <<>>, outcome |-> "", out |-> <<>>,
           wrote |-> <<>>, wrote_err |-> <<>>, thunk_runs |-> 0]

IdleFs ==
    /\ disk = [q \in {} |-> <<>>] /\ pre = disk
    /\ frame = [fn |-> "none", path |-> "", t |-> "", step |-> "", modified |-> <<>>,
                res |-> "", faulted |-> FALSE]
    /\ pc = "off"
    /\ pkg_ids = <<>> /\ i = 1 /\ j = 1 /\ ret = <<>> /\ guard = <<>>
    /\ patched = {} /\ built = FALSE /\ panicked = FALSE /\ rbFault = FALSE
    /\ hist = <<>>

IdleRs ==
    /\ g_deps = {} /\ g_proc = {} /\ proc_filter = <<>>
    /\ unresolved_deps = {} /\ resolved_deps = {} /\ result = {}
    /\ rpc = "off"

IdleWr ==
    /\ counter = -1 /\ holder = 0
    /\ tpc = [t \in Threads |-> "off"]
    /\ tmp = [t \in Threads |-> 0]
    /\ seq_n = [t \in Threads |-> 0]
    /\ ncalls = [t \in Threads |-> 0]
    /\ env = [set |-> FALSE]
    /\ stdout = <<>> /\ stderr = <<>>
    /\ last = NoLast
    /\ assigned = [k \in {} |-> 0]
    /\ exit_code = -1

IdleFl ==
    /\ f_entry = <<>> /\ f_args = <<>> /\ f_n = 0 /\ f_res = "off"

IdleSb == s_cli = <<>> /\ s_flags = <<>> /\ s_pc = "off"

IdleTr ==
    /\ tr_tokens = <<>> /\ tr_depth = 0 /\ tr_out = <<>> /\ tr_back = <<>>
    /\ tr_pc = "off"

IdleCl ==
    /\ c_in = <<>> /\ c_env = <<>> /\ c_pc = "off" /\ c_ret = <<>> /\ c_args = <<>>
    /\ c_output = <<>> /\ c_shown = <<>> /\ c_ev = <<>> /\ c_res = <<>>

(***************************************************************************)
(* The file system.  A content is a sequence of lines.                     *)
(***************************************************************************)
Exists(d, p) == p \in DOMAIN d

FsRemove(d, p) == [q \in DOMAIN d \ {p} |-> d[q]]

FsPut(d, p, c) == [q \in DOMAIN d \cup {p} |-> IF q = p THEN c ELSE d[q]]

\* rename replaces an existing destination
FsRename(d, from, to) == FsPut(FsRemove(d, from), to, d[from])

EmptyDisk == [q \in {} |-> <<>>]

\* what a failed std::fs::write may leave at the path: a truncated file
PartialContent == <<>>

(***************************************************************************)
(* The transforms.                                                         *)
(***************************************************************************)
CommentLines == {"// note"}
UnterminatedLines == {"/* open"}
MarkerLines == {"#[proc_macro]", "#[proc_macro_attribute]", "#[proc_macro_derive(Foo)]"}
WrapperLine == "#[::proc_debug::proc_debug]"
MentionsProcDebug == {"[dependencies.proc-debug]", "proc-debug = \"0.1\""}

Ok(v) == [ok |-> TRUE, val |-> v]
Err == [ok |-> FALSE, val |-> <<>>]

\* comment::rust::strip: a comment's text is removed, its line stays
RECURSIVE StripComments(_)
StripComments(s) ==
    IF s = <<>> THEN <<>>
    ELSE <<IF Head(s) \in CommentLines THEN "" ELSE Head(s)>> \o StripComments(Tail(s))

\* the three `replace` calls: the wrapper attribute lands on a line of its own
\* before the marker
RECURSIVE InsertWrappers(_)
InsertWrappers(s) ==
    IF s = <<>> THEN <<>>
    ELSE (IF Head(s) \in MarkerLines THEN <<WrapperLine, Head(s)>> ELSE <<Head(s)>>)
         \o InsertWrappers(Tail(s))

modify_rust_file(content) ==
    IF \E k \in 1..Len(content) : content[k] \in UnterminatedLines
    THEN Err
    ELSE Ok(InsertWrappers(StripComments(content)))

modify_toml_file(content) ==
    IF \E k \in 1..Len(content) : content[k] \in MentionsProcDebug
    THEN Ok(content)
    ELSE Ok(content \o <<"", "[dependencies.proc-debug]", "path = \"lib\"">>)

Transform(t, content) ==
    IF t = "rust" THEN modify_rust_file(content) ELSE modify_toml_file(content)

(***************************************************************************)
(* Paths.                                                                  *)
(***************************************************************************)
RunPkgs == {"p1", "p2"}
SrcPath(p) == p \o "/src/lib.rs"
ManifestPath(p) == p \o "/Cargo.toml"
BakPath(path) == path \o ".proc-debug-bak"
TransformOf(path) == IF \E p \in RunPkgs : path = SrcPath(p) THEN "rust" ELSE "toml"

SrcContents == { <<"#[proc_macro]", "pub fn m() {}">>,
                 <<"// note", "#[proc_macro_derive(Foo)]", "pub fn d() {}">>,
                 <<"/* open">> }
TomlContents == { <<"[package]">>, <<"[package]", "proc-debug = \"0.1\"">> }

\* One file on disk when a run starts: untouched, or left patched (with its
\* backup) by a prior run that was killed before its rollback.
FileLayouts(path, contents) ==
    { FsPut(EmptyDisk, path, c) : c \in contents }
    \cup { FsPut(FsPut(EmptyDisk, BakPath(path), c), path,
                 Transform(TransformOf(path), c).val) :
           c \in {x \in contents : Transform(TransformOf(path), x).ok} }

Merge(d1, d2) == [q \in DOMAIN d1 \cup DOMAIN d2 |-> IF q \in DOMAIN d1 THEN d1[q] ELSE d2[q]]

PkgLayouts(p) ==
    { Merge(a, b) : a \in FileLayouts(SrcPath(p), SrcContents),
                    b \in FileLayouts(ManifestPath(p), TomlContents) }

DefaultLayout(p) ==
    Merge(FsPut(EmptyDisk, SrcPath(p), <<"#[proc_macro]", "pub fn m() {}">>),
          FsPut(EmptyDisk, ManifestPath(p), <<"[package]">>))

(***************************************************************************)
(* backup_and_modify and unmodify, one file operation per step.            *)
(***************************************************************************)
\* `undo` tells how the rename of line 348 went: "" (not reached), "ok", "failed"
NoFrame == [fn |-> "none", path |-> "", t |-> "", step |-> "", modified |-> <<>>,
            res |-> "", faulted |-> FALSE, undo |-> ""]

BamFrame(path, t) == [fn |-> "bam", path |-> path, t |-> t, step |-> "prepare",
                      modified |-> <<>>, res |-> "", faulted |-> FALSE, undo |-> ""]

UnmFrame(path) == [fn |-> "unm", path |-> path, t |-> "", step |-> "remove",
                   modified |-> <<>>, res |-> "", faulted |-> FALSE, undo |-> ""]

Return(f, r) == [f EXCEPT !.step = "ret", !.res = r]

\* a slip in lines 341-343: the test for an existing backup is missing
AlreadyPatched_NotTested(d, path) == FALSE

\* line 341
AlreadyPatched(d, path) == Exists(d, BakPath(path))

\* lines 338-345: the backup check, the read and the transform
BamPrepare ==
    /\ frame.fn = "bam" /\ frame.step = "prepare"
    /\ IF AlreadyPatched(disk, frame.path)
       THEN frame' = Return(frame, "none")
       ELSE \E fault \in BOOLEAN :
              IF fault \/ ~Exists(disk, frame.path)
              THEN frame' = Return([frame EXCEPT !.faulted = TRUE], "err")
              ELSE LET m == Transform(frame.t, disk[frame.path]) IN
                   IF ~m.ok
                   THEN frame' = Return(frame, "err")
                   ELSE frame' = [frame EXCEPT !.step = "rename", !.modified = m.val]
    /\ UNCHANGED <<disk, pc, pkg_ids, i, ret, guard, j, pre, patched, built,
                   panicked, rbFault, hist>>
    /\ UNCHANGED nonFsVars

\* line 346
BamRename ==
    /\ frame.fn = "bam" /\ frame.step = "rename"
    /\ \E fault \in BOOLEAN :
         IF fault
         THEN /\ frame' = Return([frame EXCEPT !.faulted = TRUE], "err")
              /\ disk' = disk
         ELSE /\ disk' = FsRename(disk, frame.path, BakPath(frame.path))
              /\ frame' = [frame EXCEPT !.step = "write"]
    /\ UNCHANGED <<pc, pkg_ids, i, ret, guard, j, pre, patched, built,
                   panicked, rbFault, hist>>
    /\ UNCHANGED nonFsVars

\* line 347
BamWrite ==
    /\ frame.fn = "bam" /\ frame.step = "write"
    /\ \E outcome \in {"ok", "fail", "fail_partial"} :
         CASE outcome = "ok" ->
                /\ disk' = FsPut(disk, frame.path, frame.modified)
                /\ frame' = Return(frame, "some")
           [] outcome = "fail" ->
                /\ disk' = disk
                /\ frame' = [frame EXCEPT !.step = "undo", !.faulted = TRUE]
           [] outcome = "fail_partial" ->
                /\ disk' = FsPut(disk, frame.path, PartialContent)
                /\ frame' = [frame EXCEPT !.step = "undo", !.faulted = TRUE]
    /\ UNCHANGED <<pc, pkg_ids, i, ret, guard, j, pre, patched, built,
                   panicked, rbFault, hist>>
    /\ UNCHANGED nonFsVars

\* a slip in line 348: the error is returned without renaming the backup back
BamUndo_NoRename ==
    /\ frame.fn = "bam" /\ frame.step = "undo"
    /\ disk' = disk
    /\ frame' = Return(frame, "err")
    /\ UNCHANGED <<pc, pkg_ids, i, ret, guard, j, pre, patched, built,
                   panicked, rbFault, hist>>
    /\ UNCHANGED nonFsVars

\* lines 348-349
BamUndo ==
    /\ frame.fn = "bam" /\ frame.step = "undo"
    /\ \E fault \in BOOLEAN :
         /\ disk' = IF fault THEN disk
                    ELSE FsRename(disk, BakPath(frame.path), frame.path)
         /\ frame' = Return([frame EXCEPT !.undo = IF fault THEN "failed" ELSE "ok"],
                            "err")
    /\ UNCHANGED <<pc, pkg_ids, i, ret, guard, j, pre, patched, built,
                   panicked, rbFault, hist>>
    /\ UNCHANGED nonFsVars

\* a slip in line 358: the backup is removed instead of the patched file
UnmRemove_RemovesBackup ==
    /\ frame.fn = "unm" /\ frame.step = "remove"
    /\ \E fault \in BOOLEAN :
         disk' = IF fault \/ ~Exists(disk, BakPath(frame.path)) THEN disk
                 ELSE FsRemove(disk, BakPath(frame.path))
    /\ frame' = [frame EXCEPT !.step = "rename"]
    /\ UNCHANGED <<pc, pkg_ids, i, ret, guard, j, pre, patched, built,
                   panicked, rbFault, hist>>
    /\ UNCHANGED nonFsVars

\* line 358: the result of remove_file is ignored
UnmRemove ==
    /\ frame.fn = "unm" /\ frame.step = "remove"
    /\ \E fault \in BOOLEAN :
         disk' = IF fault \/ ~Exists(disk, frame.path) THEN disk
                 ELSE FsRemove(disk, frame.path)
    /\ frame' = [frame EXCEPT !.step = "rename"]
    /\ UNCHANGED <<pc, pkg_ids, i, ret, guard, j, pre, patched, built,
                   panicked, rbFault, hist>>
    /\ UNCHANGED nonFsVars

\* a slip in line 359: the backup is copied back rather than renamed
UnmRename_CopiesBack ==
    /\ frame.fn = "unm" /\ frame.step = "rename"
    /\ \E fault \in BOOLEAN :
         IF fault \/ ~Exists(disk, BakPath(frame.path))
         THEN /\ disk' = disk
              /\ frame' = Return([frame EXCEPT !.faulted = fault], "err")
         ELSE /\ disk' = FsPut(disk, frame.path, disk[BakPath(frame.path)])
              /\ frame' = Return(frame, "ok")
    /\ UNCHANGED <<pc, pkg_ids, i, ret, guard, j, pre, patched, built,
                   panicked, rbFault, hist>>
    /\ UNCHANGED nonFsVars

\* line 359
UnmRename ==
    /\ frame.fn = "unm" /\ frame.step = "rename"
    /\ \E fault \in BOOLEAN :
         IF fault \/ ~Exists(disk, BakPath(frame.path))
         THEN /\ disk' = disk
              /\ frame' = Return([frame EXCEPT !.faulted = fault], "err")
         ELSE /\ disk' = FsRename(disk, BakPath(frame.path), frame.path)
              /\ frame' = Return(frame, "ok")
    /\ UNCHANGED <<pc, pkg_ids, i, ret, guard, j, pre, patched, built,
                   panicked, rbFault, hist>>
    /\ UNCHANGED nonFsVars

(***************************************************************************)
(* main, modify_files_of_package and the rollback Guard.                   *)
(***************************************************************************)
\* lines 420-422 and 363-373: the loop head, then the call that patches the source
MainLoop ==
    /\ pc = "loop"
    /\ IF i > Len(pkg_ids)
       THEN /\ pc' = "build"
            /\ UNCHANGED <<frame, ret>>
       ELSE /\ ret' = <<>>
            /\ IF Exists(disk, SrcPath(pkg_ids[i]))
               THEN /\ frame' = BamFrame(SrcPath(pkg_ids[i]), "rust")
                    /\ pc' = "mfp_src"
               ELSE \* canonicalize fails: modify_files_of_package returns Err
                    /\ frame' = Return(BamFrame(SrcPath(pkg_ids[i]), "rust"), "err")
                    /\ pc' = "mfp_src"
    /\ UNCHANGED <<disk, pkg_ids, i, guard, j, pre, patched, built, panicked,
                   rbFault, hist>>
    /\ UNCHANGED nonFsVars

\* a slip in lines 373-375: the source path is recorded whatever
\* backup_and_modify returned
MfpSrcRet_RecordsAlreadyPatched ==
    /\ pc = "mfp_src" /\ frame.step = "ret"
    /\ IF frame.res = "err"
       THEN /\ pc' = "drop" /\ j' = 1 /\ panicked' = TRUE
            /\ frame' = NoFrame
            /\ UNCHANGED <<ret, patched>>
       ELSE /\ ret' = Append(ret, frame.path)
            /\ patched' = IF frame.res = "some" THEN patched \cup {frame.path}
                           ELSE patched
            /\ frame' = BamFrame(ManifestPath(pkg_ids[i]), "toml")
            /\ pc' = "mfp_toml"
            /\ UNCHANGED <<j, panicked>>
    /\ UNCHANGED <<disk, pkg_ids, i, guard, pre, built, rbFault, hist>>
    /\ UNCHANGED nonFsVars

\* lines 373-379: the first `?`, then the call that patches the manifest
MfpSrcRet ==
    /\ pc = "mfp_src" /\ frame.step = "ret"
    /\ IF frame.res = "err"
       THEN \* line 423: panic; the unwinding drops `ret`, then the Guard
            /\ pc' = "drop" /\ j' = 1 /\ panicked' = TRUE
            /\ frame' = NoFrame
            /\ UNCHANGED <<ret, patched>>
       ELSE /\ ret' = IF frame.res = "some" THEN Append(ret, frame.path) ELSE ret
            /\ patched' = IF frame.res = "some" THEN patched \cup {frame.path}
                           ELSE patched
            /\ frame' = BamFrame(ManifestPath(pkg_ids[i]), "toml")
            /\ pc' = "mfp_toml"
            /\ UNCHANGED <<j, panicked>>
    /\ UNCHANGED <<disk, pkg_ids, i, guard, pre, built, rbFault, hist>>
    /\ UNCHANGED nonFsVars

\* lines 379-380 and 421-425: the second `?`, Ok(ret), and the extend of the Guard
MfpTomlRet ==
    /\ pc = "mfp_toml" /\ frame.step = "ret"
    /\ frame' = NoFrame
    /\ IF frame.res = "err"
       THEN /\ pc' = "drop" /\ j' = 1 /\ panicked' = TRUE
            /\ UNCHANGED <<ret, patched, guard, i>>
       ELSE /\ ret' = <<>>
            /\ patched' = IF frame.res = "some" THEN patched \cup {frame.path}
                           ELSE patched
            /\ guard' = guard \o
                   (IF frame.res = "some" THEN Append(ret, frame.path) ELSE ret)
            /\ i' = i + 1
            /\ pc' = "loop"
            /\ UNCHANGED <<j, panicked>>
    /\ UNCHANGED <<disk, pkg_ids, pre, built, rbFault, hist>>
    /\ UNCHANGED nonFsVars

\* lines 427-432: the cargo check subprocess, then the end of main
Build ==
    /\ pc = "build"
    /\ built' = TRUE
    /\ \E spawned \in BOOLEAN : panicked' = ~spawned
    /\ pc' = "drop" /\ j' = 1
    /\ UNCHANGED <<disk, frame, pkg_ids, i, ret, guard, pre, patched, rbFault, hist>>
    /\ UNCHANGED nonFsVars

\* lines 413-417
GuardDrop ==
    /\ pc = "drop"
    /\ IF j > Len(guard)
       THEN pc' = "done" /\ frame' = frame
       ELSE pc' = "drop_wait" /\ frame' = UnmFrame(guard[j])
    /\ UNCHANGED <<disk, pkg_ids, i, ret, guard, j, pre, patched, built, panicked,
                   rbFault, hist>>
    /\ UNCHANGED nonFsVars

\* a slip in line 415: the error of unmodify ends the loop (`unmodify(p)?`-like)
GuardDropRet_StopsAtError ==
    /\ pc = "drop_wait" /\ frame.step = "ret"
    /\ rbFault' = (rbFault \/ frame.faulted)
    /\ frame' = NoFrame
    /\ j' = j + 1
    /\ pc' = IF frame.res = "err" THEN "done" ELSE "drop"
    /\ panicked' = (panicked \/ frame.res = "err")
    /\ UNCHANGED <<disk, pkg_ids, i, ret, guard, pre, patched, built, hist>>
    /\ UNCHANGED nonFsVars

\* line 415: `let _ =`
GuardDropRet ==
    /\ pc = "drop_wait" /\ frame.step = "ret"
    /\ rbFault' = (rbFault \/ frame.faulted)
    /\ frame' = NoFrame
    /\ j' = j + 1
    /\ pc' = "drop"
    /\ UNCHANGED <<disk, pkg_ids, i, ret, guard, pre, patched, built, panicked, hist>>
    /\ UNCHANGED nonFsVars

\* the process is killed: nothing more runs, the Guard included
Kill ==
    /\ pc \notin {"done", "killed"}
    /\ pc' = "killed"
    /\ UNCHANGED <<disk, frame, pkg_ids, i, ret, guard, j, pre, patched, built,
                   panicked, rbFault, hist>>
    /\ UNCHANGED nonFsVars

NoCall == [fn |-> "none", path |-> "", res |-> "", faulted |-> FALSE, before |-> EmptyDisk]

SelectedSeqs == { <<>>, <<"p1">>, <<"p2">>, <<"p1", "p2">> }

InSeq(x, s) == \E k \in 1..Len(s) : s[k] = x

InitRun ==
    /\ pkg_ids \in SelectedSeqs
    /\ \E l1 \in PkgLayouts("p1"), l2 \in PkgLayouts("p2") :
         disk = Merge(IF InSeq("p1", pkg_ids) THEN l1 ELSE DefaultLayout("p1"),
                      IF InSeq("p2", pkg_ids) THEN l2 ELSE DefaultLayout("p2"))
    /\ pre = disk
    /\ frame = NoFrame
    /\ pc = "loop"
    /\ i = 1 /\ j = 1
    /\ ret = <<>> /\ guard = <<>>
    /\ patched = {}
    /\ built = FALSE /\ panicked = FALSE /\ rbFault = FALSE
    /\ hist = <<NoCall, NoCall>>
    /\ IdleRs /\ IdleWr /\ IdleFl /\ IdleTr /\ IdleCl /\ IdleSb

NextRun ==
    \/ MainLoop \/ MfpSrcRet \/ MfpTomlRet \/ Build \/ GuardDrop \/ GuardDropRet
    \/ BamPrepare \/ BamRename \/ BamWrite \/ BamUndo \/ UnmRemove \/ UnmRename
    \/ Kill

SpecRun == InitRun /\ [][NextRun]_vars

(***************************************************************************)
(* backup_and_modify and unmodify called one after the other on the files  *)
(* of one package, in any order: the two functions as an interface.        *)
(***************************************************************************)
HFiles == {SrcPath("p1"), ManifestPath("p1")}

HCallPatch ==
    /\ pc = "idle"
    /\ \E f \in HFiles :
         /\ frame' = BamFrame(f, TransformOf(f))
         /\ hist' = <<hist[2], [fn |-> "bam", path |-> f, res |-> "",
                                faulted |-> FALSE, before |-> disk]>>
    /\ pc' = "h_wait"
    /\ UNCHANGED <<disk, pkg_ids, i, ret, guard, j, pre, patched, built, panicked,
                   rbFault>>
    /\ UNCHANGED nonFsVars

HCallUnpatch ==
    /\ pc = "idle"
    /\ \E f \in HFiles :
         /\ frame' = UnmFrame(f)
         /\ hist' = <<hist[2], [fn |-> "unm", path |-> f, res |-> "",
                                faulted |-> FALSE, before |-> disk]>>
    /\ pc' = "h_wait"
    /\ UNCHANGED <<disk, pkg_ids, i, ret, guard, j, pre, patched, built, panicked,
                   rbFault>>
    /\ UNCHANGED nonFsVars

HRet ==
    /\ pc = "h_wait" /\ frame.step = "ret"
    /\ hist' = <<hist[1], [hist[2] EXCEPT !.res = frame.res,
                                          !.faulted = frame.faulted]>>
    /\ frame' = NoFrame
    /\ pc' = "idle"
    /\ UNCHANGED <<disk, pkg_ids, i, ret, guard, j, pre, patched, built, panicked,
                   rbFault>>
    /\ UNCHANGED nonFsVars

InitFs ==
    /\ disk \in PkgLayouts("p1")
    /\ pre = disk
    /\ frame = NoFrame
    /\ pc = "idle"
    /\ pkg_ids = <<>>
    /\ i = 1 /\ j = 1
    /\ ret = <<>> /\ guard = <<>>
    /\ patched = {}
    /\ built = FALSE /\ panicked = FALSE /\ rbFault = FALSE
    /\ hist = <<NoCall, NoCall>>
    /\ IdleRs /\ IdleWr /\ IdleFl /\ IdleTr /\ IdleCl /\ IdleSb

NextFs ==
    \/ HCallPatch \/ HCallUnpatch \/ HRet
    \/ BamPrepare \/ BamRename \/ BamWrite \/ BamUndo \/ UnmRemove \/ UnmRename

SpecFs == InitFs /\ [][NextFs]_vars

(***************************************************************************)
(* Claims about the patching engine.                                       *)
(***************************************************************************)
SelectedFiles == UNION { {SrcPath(pkg_ids[k]), ManifestPath(pkg_ids[k])} :
                         k \in 1..Len(pkg_ids) }

\* the original content of a file: what its backup held when the run started,
\* if it had one, else what the file held
Orig(f) == IF Exists(pre, BakPath(f)) THEN pre[BakPath(f)] ELSE pre[f]

\* C1 (as claimed): when the run has ended, by completion or by a panic, every
\* file for which backup_and_modify returned Some holds its pre-run content
\* again (rollbacks whose rename hit an I/O error set aside).
C1_PatchedRestoredAtEnd ==
    (pc = "done" /\ ~rbFault) =>
        \A f \in patched : Exists(disk, f) /\ disk[f] = pre[f]

C3_UnpatchWithoutBackupIsNoop ==
    LET u == hist[2]
    IN  (pc = "idle" /\ u.fn = "unm" /\ Exists(u.before, u.path)
            /\ ~Exists(u.before, BakPath(u.path)) /\ ~u.faulted) =>
        (u.res = "ok" /\ disk = u.before)

\* C4: in every state of a run, the states between two file operations
\* included, each selected file either holds its original content and has no
\* backup, or has a backup that holds its original content.
C4_OriginalRecoverable ==
    \A f \in SelectedFiles :
        \/ Exists(disk, f) /\ disk[f] = Orig(f) /\ ~Exists(disk, BakPath(f))
        \/ Exists(disk, BakPath(f)) /\ disk[BakPath(f)] = Orig(f)

\* killed between the rename to the backup and the write of the new content
C4_Witness ==
    /\ pc = "killed" /\ frame.fn = "bam" /\ frame.step = "write"
    /\ ~Exists(disk, frame.path)

\* a call of modify_files_of_package returned Err and main panicked at line 423:
\* the loop over the packages stopped at package i
PatchFailed == panicked /\ i <= Len(pkg_ids)

\* C18 (as claimed): once the patching of a file of a selected package has
\* failed, the cargo check subprocess is not started in that run, and when the
\* run has ended no selected file that the run patched is still patched
\* (rollbacks whose rename hit an I/O error set aside).
C18_FailedPatchMeansNoBuildNothingLeftPatched ==
    PatchFailed =>
        /\ ~built
        /\ (pc = "done" /\ ~rbFault) =>
              \A f \in SelectedFiles :
                  f \in patched => (Exists(disk, f) /\ disk[f] = Orig(f))

\* C19: when the run has ended, Guard::drop has called unmodify for every
\* recorded path, whatever the earlier calls returned, and a panic of the run
\* comes from the patching loop or from the build step, never from the rollback.
C19_RollbackAttemptsEveryRecordedFile ==
    pc = "done" =>
        /\ j = Len(guard) + 1
        /\ panicked => (PatchFailed \/ built)

\* the restore of the first recorded file failed, the second recorded file was
\* restored all the same, and the run ended without a panic
C19_Witness ==
    /\ pc = "done" /\ Len(guard) >= 2 /\ rbFault /\ ~panicked
    /\ Exists(disk, BakPath(guard[1]))
    /\ Exists(disk, guard[2]) /\ disk[guard[2]] = pre[guard[2]]
    /\ ~Exists(disk, BakPath(guard[2]))

\* C25: a selected file whose backup exists when the run starts is never
\* recorded in the Guard, and the run leaves the file and its backup as they
\* were: when the run ends the file is still patched and the backup still there.
C25_AlreadyPatchedNeverRecordedNorRestored ==
    \A f \in SelectedFiles :
        Exists(pre, BakPath(f)) =>
            /\ \A k \in 1..Len(guard) : guard[k] # f
            /\ \A k \in 1..Len(ret) : ret[k] # f
            /\ Exists(disk, BakPath(f)) /\ disk[BakPath(f)] = pre[BakPath(f)]
            /\ Exists(pre, f) => (Exists(disk, f) /\ disk[f] = pre[f])

\* the run ended after the build; the source of p1 was left patched beside its
\* backup while the manifest of p1, patched by this run, was restored
C25_Witness ==
    /\ pc = "done" /\ built /\ ~panicked /\ ~rbFault
    /\ SrcPath("p1") \in SelectedFiles
    /\ Exists(pre, BakPath(SrcPath("p1")))
    /\ disk[SrcPath("p1")] # disk[BakPath(SrcPath("p1"))]
    /\ ManifestPath("p1") \in patched
    /\ disk[ManifestPath("p1")] = pre[ManifestPath("p1")]
    /\ ~Exists(disk, BakPath(ManifestPath("p1")))

\* backup_and_modify has run to its return and not yet handed its result over
BamReturning == pc = "h_wait" /\ frame.fn = "bam" /\ frame.step = "ret"

\* C16: backup_and_modify called while the backup of the file exists returns
\* Ok(None), without applying the transform, and leaves every file and the
\* set of files as they were.
C16_ExistingBackupMeansNoChange ==
    (BamReturning /\ Exists(hist[2].before, BakPath(frame.path))) =>
        /\ frame.res = "none"
        /\ frame.modified = <<>>
        /\ disk = hist[2].before

\* the source is patched and has its backup: the transform would change it again
C16_Witness ==
    /\ BamReturning /\ frame.path = SrcPath("p1") /\ frame.res = "none"
    /\ Exists(disk, frame.path)
    /\ disk[frame.path] # disk[BakPath(frame.path)]
    /\ modify_rust_file(disk[frame.path]).ok
    /\ modify_rust_file(disk[frame.path]).val # disk[frame.path]

LibName == "proc-debug"

\* the package ids of the workspace: <<name, version>>
AllPkgs == { <<"proc-debug", 1>>, <<"proc-debug-macro", 1>>, <<"mymacro", 1>>,
             <<"app", 1>> }

Name(pid) == pid[1]

\* resolve.deps(d): the direct dependencies of d
Deps(d) == { e[2] : e \in {x \in g_deps : x[1] = d} }

EdgeSets(n) == { es \in SUBSET (AllPkgs \X AllPkgs) : Cardinality(es) <= n }

ProcFilters == { <<>>, <<"mymacro">>, <<"proc-debug-macro", "proc-debug">> }

\* lines 282-286 and 263-264: the seeds are the packages named proc-debug
ResolveStart ==
    /\ rpc = "start"
    /\ unresolved_deps' = { pid \in AllPkgs : Name(pid) = LibName }
    /\ resolved_deps' = {}
    /\ rpc' = "loop"
    /\ UNCHANGED <<g_deps, g_proc, proc_filter, result>>
    /\ UNCHANGED nonRsVars

\* a slip in lines 265-273: the loop body runs once, so only the direct
\* dependencies are collected
ResolveLoop_DirectOnly ==
    /\ rpc = "loop" /\ unresolved_deps # {}
    /\ resolved_deps' = resolved_deps \cup unresolved_deps
                           \cup UNION { Deps(d) : d \in unresolved_deps }
    /\ unresolved_deps' = {}
    /\ UNCHANGED <<g_deps, g_proc, proc_filter, result, rpc>>
    /\ UNCHANGED nonRsVars

\* a slip in line 272: the visited set is not taken out of the next frontier
ResolveLoop_RevisitsVisited ==
    /\ rpc = "loop" /\ unresolved_deps # {}
    /\ resolved_deps' = resolved_deps \cup unresolved_deps
    /\ unresolved_deps' = UNION { Deps(d) : d \in unresolved_deps }
    /\ UNCHANGED <<g_deps, g_proc, proc_filter, result, rpc>>
    /\ UNCHANGED nonRsVars

\* lines 265-273: one iteration of the while loop
ResolveLoop ==
    /\ rpc = "loop" /\ unresolved_deps # {}
    /\ LET r == UNION { Deps(d) : d \in unresolved_deps }
           resolved == resolved_deps \cup unresolved_deps
       IN  /\ resolved_deps' = resolved
           /\ unresolved_deps' = r \ resolved
    /\ UNCHANGED <<g_deps, g_proc, proc_filter, result, rpc>>
    /\ UNCHANGED nonRsVars

\* lines 274 and 286-298: the loop ends; the macro providers that pass the name
\* filter, less the closure of the library
ResolveFinish ==
    /\ rpc = "loop" /\ unresolved_deps = {}
    /\ LET lib_package_deps == resolved_deps
           proc_packages ==
               { pid \in g_proc :
                   \/ Len(proc_filter) = 0
                   \/ \E k \in 1..Len(proc_filter) : Name(pid) = proc_filter[k] }
       IN  result' = proc_packages \ lib_package_deps
    /\ rpc' = "done"
    /\ UNCHANGED <<g_deps, g_proc, proc_filter, unresolved_deps, resolved_deps>>
    /\ UNCHANGED nonRsVars

InitResolve ==
    /\ g_deps \in EdgeSets(MaxDepEdges)
    /\ g_proc \in SUBSET AllPkgs
    /\ proc_filter \in ProcFilters
    /\ unresolved_deps = {} /\ resolved_deps = {} /\ result = {}
    /\ rpc = "start"
    /\ IdleFs /\ IdleWr /\ IdleFl /\ IdleTr /\ IdleCl /\ IdleSb

NextResolve == ResolveStart \/ ResolveLoop \/ ResolveFinish

SpecResolve == InitResolve /\ [][NextResolve]_vars

\* the loop of resolve_deps is sequential code: an iteration that can run, runs
SpecResolveFair == SpecResolve /\ WF_vars(NextResolve)

\* b is reachable from a over one or more dependency edges
Path(a, b) ==
    \E n \in 2..(Cardinality(AllPkgs) + 1) :
        \E p \in [1..n -> AllPkgs] :
            /\ p[1] = a /\ p[n] = b
            /\ \A k \in 1..(n - 1) : <<p[k], p[k + 1]>> \in g_deps

LibPkgs == { pid \in AllPkgs : Name(pid) = LibName }

\* C5: what resolve_all_packages returns holds no package named proc-debug and
\* no package reachable from one over dependency edges.
C5_ResultExcludesLibClosure ==
    rpc = "done" =>
        \A pid \in result :
            /\ Name(pid) # LibName
            /\ \A l \in LibPkgs : ~Path(l, pid)

\* the library and a package two edges below it, on a cycle through it, are
\* both macro providers named by the filter, and both are left out
C5_Witness ==
    /\ rpc = "done"
    /\ proc_filter # <<>>
    /\ <<"proc-debug-macro", 1>> \in g_proc
    /\ <<"proc-debug", 1>> \in g_proc
    /\ {<<"proc-debug-macro", 1>>, <<"proc-debug", 1>>} \cap result = {}
    /\ g_deps = { << <<"proc-debug", 1>>, <<"app", 1>> >>,
                  << <<"app", 1>>, <<"proc-debug-macro", 1>> >>,
                  << <<"proc-debug-macro", 1>>, <<"proc-debug", 1>> >> }

\* the packages reachable from the seeds over dependency edges, seeds included
SeedClosure == LibPkgs \cup { pid \in AllPkgs : \E l \in LibPkgs : Path(l, pid) }

\* C20: resolve_deps terminates on every dependency graph, cycles and
\* self-loops included, and returns exactly the packages reachable from the
\* seeds, the seeds among them.
C20_ResolveDepsTerminatesWithClosure ==
    /\ <>(rpc = "done")
    /\ [](rpc = "done" => resolved_deps = SeedClosure)

\* a graph with a cycle through the seed and a self-loop on the cycle
C20_Witness ==
    /\ rpc = "done"
    /\ g_deps = { << <<"proc-debug", 1>>, <<"proc-debug-macro", 1>> >>,
                  << <<"proc-debug-macro", 1>>, <<"proc-debug", 1>> >>,
                  << <<"proc-debug-macro", 1>>, <<"proc-debug-macro", 1>> >> }
    /\ resolved_deps = { <<"proc-debug", 1>>, <<"proc-debug-macro", 1>> }

(***************************************************************************)
(* Entry::check_filter.  A string is a sequence of characters.             *)
(***************************************************************************)
StartsWith(s, t) == Len(t) <= Len(s) /\ SubSeq(s, 1, Len(t)) = t

EndsWith(s, t) == Len(t) <= Len(s) /\ SubSeq(s, Len(s) - Len(t) + 1, Len(s)) = t

Contains(s, t) ==
    \E k \in 0..(Len(s) - Len(t)) : SubSeq(s, k + 1, k + Len(t)) = t

Sep == <<":", ":">>

sCrate == <<"c", "r", "a", "t", "e">>
sCrateM == sCrate \o Sep \o <<"m">>
sFoo == <<"F", "o", "o">>
sFo == <<"F", "o">>
sBar == <<"B", "a", "r">>
sBuild == <<"b", "u", "i", "l", "d">>
sFile == <<"a", ".", "r", "s">>

\* a slip in lines 345-347: prefix and suffix are compared without the separator
PathMatches_NoSeparator(m, pattern) ==
    \/ m = pattern
    \/ StartsWith(pattern, m)
    \/ EndsWith(pattern, m)

\* lines 345-347
PathMatches(m, pattern) ==
    \/ m = pattern
    \/ StartsWith(pattern, m \o Sep)
    \/ EndsWith(pattern, Sep \o m)

\* a slip in lines 338-350: the path-patterns are tested before the
\* exclude-substrings
FilterRest_PathFirst(e, a) ==
    LET content == <<e.label, e.file, e.modpath, e.macro_name>>
        pattern == e.modpath \o Sep \o e.macro_name
    IN  IF \E y \in 1..Len(a.path) : PathMatches(a.path[y], pattern) THEN TRUE
        ELSE IF \E x \in 1..4 : \E y \in 1..Len(a.not) : Contains(content[x], a.not[y])
             THEN FALSE
        ELSE IF \E x \in 1..4 : \E y \in 1..Len(a.queries) :
                    Contains(content[x], a.queries[y])
             THEN TRUE
        ELSE FALSE

\* lines 338-357: the tests after match-all
FilterRest(e, a) ==
    LET content == <<e.label, e.file, e.modpath, e.macro_name>>
        pattern == e.modpath \o Sep \o e.macro_name
    IN  IF \E x \in 1..4 : \E y \in 1..Len(a.not) : Contains(content[x], a.not[y])
             THEN FALSE
        ELSE IF \E y \in 1..Len(a.path) : PathMatches(a.path[y], pattern) THEN TRUE
        ELSE IF \E x \in 1..4 : \E y \in 1..Len(a.queries) :
                    Contains(content[x], a.queries[y])
             THEN TRUE
        ELSE FALSE

\* a slip in lines 332-337: match-all is tested before the count
check_filter_AllFirst(e, a, n) ==
    IF a.all THEN TRUE
    ELSE IF Len(a.count) = 1 /\ n > a.count[1] THEN FALSE
    ELSE FilterRest(e, a)

\* lines 328-358.  args.count is <<>> for None and <<c>> for Some(c); no n
\* exceeds usize::MAX, the value unwrap_or gives for None.
check_filter(e, a, n) ==
    IF Len(a.count) = 1 /\ n > a.count[1] THEN FALSE
    ELSE IF a.all THEN TRUE
    ELSE FilterRest(e, a)

Entries ==
    [ label : {sBuild, sCrateM \o Sep \o sFoo},
      file : {sFile},
      modpath : {sCrateM, sCrate},
      macro_name : {sFoo, sFo} ]

Patterns == { sCrateM \o Sep \o sFoo, sCrateM \o Sep \o sBar, sCrateM \o Sep \o sFo,
              sFoo, sCrate, <<"m">> \o Sep \o sFoo, <<"o", "o">> }

SeqsUpTo(S, n) == UNION { [1..k -> S] : k \in 0..n }

FilterArgs ==
    [ all : BOOLEAN,
      not : {<<>>, <<sFoo>>},
      path : SeqsUpTo(Patterns, MaxPatterns),
      queries : {<<>>, <<sBuild>>},
      depth : {<<>>},
      count : {<<>>, <<1>>, <<2>>},
      verbose : {FALSE} ]

Verdict(b) == IF b THEN "pass" ELSE "fail"

CheckFilter ==
    /\ f_res = "none"
    /\ f_res' = Verdict(check_filter(f_entry, f_args, f_n))
    /\ UNCHANGED <<f_entry, f_args, f_n>>
    /\ UNCHANGED nonFlVars

InitFilter ==
    /\ f_entry \in Entries
    /\ f_args \in FilterArgs
    /\ f_n \in 1..MaxSeq
    /\ f_res = "none"
    /\ IdleFs /\ IdleRs /\ IdleWr /\ IdleTr /\ IdleCl /\ IdleSb

NextFilter == CheckFilter

SpecFilter == InitFilter /\ [][NextFilter]_vars

FullPath(e) == e.modpath \o Sep \o e.macro_name

Excluded(e, a) ==
    \E s \in {e.label, e.file, e.modpath, e.macro_name} :
        \E y \in 1..Len(a.not) : Contains(s, a.not[y])

\* C9: with match-all set, check_filter passes exactly when no maximum count is
\* configured or the sequence number does not exceed it, whatever the entry,
\* the exclude-substrings, the path-patterns and the free-text terms are.
C9_MatchAllPassesUpToCount ==
    (f_res \in {"pass", "fail"} /\ f_args.all) =>
        (f_res = "pass" <=> (f_args.count = <<>> \/ f_n <= f_args.count[1]))

\* match-all wins over an exclude-substring that occurs in the macro name and
\* over a pattern list that names another macro
C9_Witness ==
    /\ f_res = "pass" /\ f_args.all
    /\ f_args.count = <<2>> /\ f_n = 2
    /\ Excluded(f_entry, f_args)
    /\ f_args.path = <<sCrateM \o Sep \o sBar>>
    /\ f_args.queries = <<>>

\* P is the whole path, or the path is P, the separator and a rest, or a rest,
\* the separator and P
SegmentMatch(P, full) ==
    \/ P = full
    \/ \E k \in 0..Len(full) : full = P \o Sep \o SubSeq(full, k + 1, Len(full))
    \/ \E k \in 0..Len(full) : full = SubSeq(full, 1, k) \o Sep \o P

\* C10: with match-all unset, no exclude-substring occurring, no free-text term
\* and the sequence number within the count, check_filter passes exactly when
\* some path-pattern is the whole `module::macro`, a prefix of it ending at a
\* separator or a suffix of it starting at one.
C10_PathPatternOnSegments ==
    (/\ f_res \in {"pass", "fail"}
     /\ ~f_args.all
     /\ ~Excluded(f_entry, f_args)
     /\ f_args.queries = <<>>
     /\ (f_args.count = <<>> \/ f_n <= f_args.count[1])) =>
        (f_res = "pass" <=>
            \E y \in 1..Len(f_args.path) : SegmentMatch(f_args.path[y], FullPath(f_entry)))

\* the only pattern is a proper prefix of the path that ends inside the macro
\* name: the entry fails
C10_Witness ==
    /\ f_res = "fail" /\ ~f_args.all /\ f_args.not = <<>> /\ f_args.queries = <<>>
    /\ f_args.count = <<>>
    /\ f_entry.modpath = sCrateM /\ f_entry.macro_name = sFoo
    /\ f_args.path = <<sCrateM \o Sep \o sFo>>

\* C21: with match-all unset, an entry whose label, file, module path or macro
\* name contains an exclude-substring fails check_filter, whatever path-pattern
\* or free-text term matches it.
C21_ExcludeWinsOverPathAndTerms ==
    (f_res \in {"pass", "fail"} /\ ~f_args.all /\ Excluded(f_entry, f_args)) =>
        f_res = "fail"

\* the macro name holds the exclude-substring, a path-pattern names the macro
\* and a free-text term occurs in the label, within the count
C21_Witness ==
    /\ f_res = "fail" /\ ~f_args.all
    /\ f_args.not = <<sFoo>> /\ f_entry.macro_name = sFoo
    /\ \E y \in 1..Len(f_args.path) : SegmentMatch(f_args.path[y], FullPath(f_entry))
    /\ f_args.queries = <<sBuild>> /\ f_entry.label = sBuild
    /\ f_args.count = <<2>> /\ f_n = 1

(***************************************************************************)
(* Token trees, and the classification of a macro's output.                *)
(***************************************************************************)
Ident(x) == [k |-> "ident", s |-> x, ts |-> <<>>]
Punct(c) == [k |-> "punct", s |-> c, ts |-> <<>>]
Lit(x) == [k |-> "lit", s |-> x, ts |-> <<>>]
Group(d, inner) == [k |-> "group", s |-> d, ts |-> inner]

Keywords == {"struct", "fn", "let", "static"}
UpperIdents == {"Foo", "S"}

\* syn's cursor enters a None-delimited group transparently
RECURSIVE IgnoreNone(_)
IgnoreNone(tokens) ==
    IF Len(tokens) = 1 /\ tokens[1].k = "group" /\ tokens[1].s = "none"
    THEN IgnoreNone(tokens[1].ts)
    ELSE tokens

\* parse2::<Ident>
AcceptIdent(tokens) ==
    LET u == IgnoreNone(tokens)
    IN  Len(u) = 1 /\ u[1].k = "ident" /\ u[1].s \notin Keywords

\* parse2::<Type>, of the streams below: the unit type and a reference to a name
AcceptType(tokens) ==
    \/ tokens = <<Group("paren", <<>>)>>
    \/ Len(tokens) = 2 /\ tokens[1] = Punct("&") /\ AcceptIdent(<<tokens[2]>>)

\* `fn name ( .. ) { .. }`
IsFnItem(m) ==
    /\ Len(m) = 4 /\ m[1] = Ident("fn") /\ m[2].k = "ident"
    /\ m[3].k = "group" /\ m[3].s = "paren" /\ m[4].k = "group" /\ m[4].s = "brace"

\* `fn name ( .. ) ;`
IsFnDecl(m) ==
    /\ Len(m) = 4 /\ m[1] = Ident("fn") /\ m[2].k = "ident"
    /\ m[3].k = "group" /\ m[3].s = "paren" /\ m[4] = Punct(";")

\* `struct Name ;`
IsStructItem(m) ==
    Len(m) = 3 /\ m[1] = Ident("struct") /\ m[2].k = "ident" /\ m[3] = Punct(";")

\* `static NAME : Type ;`
IsStaticDecl(m) ==
    /\ Len(m) = 5 /\ m[1] = Ident("static") /\ m[2].k = "ident" /\ m[3] = Punct(":")
    /\ m[4].k = "ident" /\ m[5] = Punct(";")

\* `let name = literal ;` and `literal ;`
IsSimpleStmt(m) ==
    \/ /\ Len(m) = 5 /\ m[1] = Ident("let") /\ m[2].k = "ident" /\ m[3] = Punct("=")
       /\ m[4].k = "lit" /\ m[5] = Punct(";")
    \/ Len(m) = 2 /\ m[1].k = "lit" /\ m[2] = Punct(";")

IsMember(cat, m) ==
    CASE cat = "ImplItem" -> IsFnItem(m)
      [] cat = "TraitItem" -> IsFnItem(m) \/ IsFnDecl(m)
      [] cat = "ForeignItem" -> IsFnDecl(m) \/ IsStaticDecl(m)
      [] cat = "Item" -> IsFnItem(m) \/ IsStructItem(m) \/ IsStaticDecl(m)
      [] cat = "Stmt" -> IsFnItem(m) \/ IsStructItem(m) \/ IsStaticDecl(m)
                          \/ IsSimpleStmt(m)

\* Sequentary<T>: members until the input is empty (the empty input included)
RECURSIVE AcceptSeq(_, _)
AcceptSeq(cat, tokens) ==
    \/ tokens = <<>>
    \/ \E n \in 1..Len(tokens) :
          /\ IsMember(cat, SubSeq(tokens, 1, n))
          /\ AcceptSeq(cat, SubSeq(tokens, n + 1, Len(tokens)))

\* a slip in lines 179-184: the trait members are tried before the impl members
from_tokens_TraitBeforeImpl(tokens, kind) ==
    IF kind = "function" /\ AcceptIdent(tokens)
    THEN [cat |-> IF IgnoreNone(tokens)[1].s \in UpperIdents THEN "Type" ELSE "Expr",
          toks |-> IgnoreNone(tokens)]
    ELSE IF kind = "function" /\ AcceptType(tokens) THEN [cat |-> "Type", toks |-> tokens]
    ELSE IF AcceptSeq("TraitItem", tokens) THEN [cat |-> "TraitItem", toks |-> tokens]
    ELSE IF AcceptSeq("ImplItem", tokens) THEN [cat |-> "ImplItem", toks |-> tokens]
    ELSE IF AcceptSeq("ForeignItem", tokens) THEN [cat |-> "ForeignItem", toks |-> tokens]
    ELSE IF AcceptSeq("Item", tokens) THEN [cat |-> "Item", toks |-> tokens]
    ELSE IF AcceptSeq("Stmt", tokens) THEN [cat |-> "Stmt", toks |-> tokens]
    ELSE [cat |-> "Other", toks |-> tokens]

\* lines 153-195; `toks` is what the parsed value emits (lines 58-72, 197-203)
from_tokens(tokens, kind) ==
    IF kind = "function" /\ AcceptIdent(tokens)
    THEN [cat |-> IF IgnoreNone(tokens)[1].s \in UpperIdents THEN "Type" ELSE "Expr",
          toks |-> IgnoreNone(tokens)]
    ELSE IF kind = "function" /\ AcceptType(tokens) THEN [cat |-> "Type", toks |-> tokens]
    ELSE IF AcceptSeq("ImplItem", tokens) THEN [cat |-> "ImplItem", toks |-> tokens]
    ELSE IF AcceptSeq("TraitItem", tokens) THEN [cat |-> "TraitItem", toks |-> tokens]
    ELSE IF AcceptSeq("ForeignItem", tokens) THEN [cat |-> "ForeignItem", toks |-> tokens]
    ELSE IF AcceptSeq("Item", tokens) THEN [cat |-> "Item", toks |-> tokens]
    ELSE IF AcceptSeq("Stmt", tokens) THEN [cat |-> "Stmt", toks |-> tokens]
    ELSE [cat |-> "Other", toks |-> tokens]

emit(output) == output.toks

\* what a wrapped macro returns
ThunkOutputs ==
    { <<Lit("42")>>,
      <<Ident("x")>>,
      <<Group("none", <<Ident("x")>>)>>,
      <<Ident("struct"), Ident("S"), Punct(";")>> }

(***************************************************************************)
(* The attribute macro: check_macro_kind and the inputs it passes.         *)
(***************************************************************************)
Attr(meta, name, single) == [meta |-> meta, name |-> name, single |-> single]

aProcMacro == Attr("path", "proc_macro", FALSE)
aProcMacroAttribute == Attr("path", "proc_macro_attribute", FALSE)
aProcMacroError == Attr("path", "proc_macro_error", FALSE)
aDoc == Attr("namevalue", "doc", FALSE)
\* #[proc_macro_derive(Foo)]
aDerive == Attr("list", "proc_macro_derive", TRUE)
\* #[proc_macro_derive(Foo, attributes(foo))]
aDeriveWithAttributes == Attr("list", "proc_macro_derive", FALSE)

\* src/macro/lib.rs lines 16-34; the result is <<kind, derive ident present>>
RECURSIVE check_macro_kind(_)
check_macro_kind(attrs) ==
    IF attrs = <<>> THEN <<"unknown", FALSE>>
    ELSE LET a == Head(attrs) IN
         IF a.meta = "path" /\ a.name = "proc_macro" THEN <<"function", FALSE>>
         ELSE IF a.meta = "path" /\ a.name = "proc_macro_attribute"
              THEN <<"attribute", FALSE>>
         ELSE IF a.meta = "list" /\ a.name = "proc_macro_derive" /\ a.single
              THEN <<"derive", TRUE>>
         ELSE check_macro_kind(Tail(attrs))

\* the functions the attribute is put on: their attributes and the number of
\* arguments the compiler requires of a macro of that kind
ItemFns ==
    { [attrs |-> <<aProcMacro>>, nargs |-> 1],
      [attrs |-> <<aProcMacroError, aProcMacro>>, nargs |-> 1],
      [attrs |-> <<aProcMacroAttribute>>, nargs |-> 2],
      [attrs |-> <<aDerive>>, nargs |-> 1],
      [attrs |-> <<aDoc, aDeriveWithAttributes>>, nargs |-> 1] }

\* src/macro/lib.rs lines 37-41 and 62-83: the length of macro_inputs
MacroInputsLen(f) == (IF check_macro_kind(f.attrs)[2] THEN 1 ELSE 0) + f.nargs

(***************************************************************************)
(* count and proc_wrapper.                                                 *)
(***************************************************************************)
NoArgs == [all |-> FALSE, not |-> <<>>, path |-> <<>>, queries |-> <<>>,
           depth |-> <<>>, count |-> <<>>, verbose |-> FALSE]

EnvAbsent == [set |-> FALSE, parse |-> "", args |-> NoArgs]

\* PROC_DEBUG_FLAGS: absent; set to text shtring cannot split; set to --help;
\* set to an argument list argp rejects; set to a Filter Query
Envs ==
    { EnvAbsent,
      [set |-> TRUE, parse |-> "unsplittable", args |-> NoArgs],
      [set |-> TRUE, parse |-> "help", args |-> NoArgs],
      [set |-> TRUE, parse |-> "malformed", args |-> NoArgs],
      [set |-> TRUE, parse |-> "args", args |-> [NoArgs EXCEPT !.all = TRUE]],
      [set |-> TRUE, parse |-> "args", args |-> [NoArgs EXCEPT !.path = <<sFoo>>]],
      [set |-> TRUE, parse |-> "args",
       args |-> [NoArgs EXCEPT !.all = TRUE, !.count = <<1>>]],
      [set |-> TRUE, parse |-> "args",
       args |-> [NoArgs EXCEPT !.all = TRUE, !.count = <<2>>]] }

\* a slip in line 286: an absent variable is read as "-a"
from_env_AbsentShowsAll(e) ==
    IF ~e.set THEN [tag |-> "some", args |-> [NoArgs EXCEPT !.all = TRUE], code |-> 0]
    ELSE IF e.parse = "unsplittable" THEN [tag |-> "none", args |-> NoArgs, code |-> 0]
    ELSE IF e.parse \in {"help", "malformed"}
         THEN [tag |-> "exit", args |-> NoArgs, code |-> 1]
    ELSE [tag |-> "some", args |-> e.args, code |-> 0]

\* lines 285-313
from_env(e) ==
    IF ~e.set THEN [tag |-> "none", args |-> NoArgs, code |-> 0]
    ELSE IF e.parse = "unsplittable" THEN [tag |-> "none", args |-> NoArgs, code |-> 0]
    ELSE IF e.parse \in {"help", "malformed"}
         THEN [tag |-> "exit", args |-> NoArgs, code |-> 1]
    ELSE [tag |-> "some", args |-> e.args, code |-> 0]

\* lines 214-222: the indexing of macro_inputs panics when an input is missing
ShowMacroCallPanics(kind, ninputs) ==
    \/ kind = "function" /\ ninputs < 1
    \/ kind \in {"attribute", "derive"} /\ ninputs < 2

\* lines 45-56
MacroKindFromStrOk(kind) == kind \in {"function", "attribute", "derive"}

Ended(outcome, out, wrote, wrote_err) ==
    [outcome |-> outcome, out |-> out, wrote |-> wrote, wrote_err |-> wrote_err]

\* lines 389-418, after the thunk returned `raw`
WrapperBody(entry, kind, ninputs, raw, e, n) ==
    LET fe == from_env(e) IN
    IF fe.tag = "none" THEN Ended("ret", raw, <<>>, <<>>)
    ELSE IF fe.tag = "exit" THEN Ended("exit", <<>>, <<>>, <<e.parse>>)
    ELSE IF ~check_filter(entry, fe.args, n) THEN Ended("ret", raw, <<>>, <<>>)
    ELSE IF ShowMacroCallPanics(kind, ninputs) THEN Ended("panic", <<>>, <<>>, <<>>)
    ELSE IF ~MacroKindFromStrOk(kind) THEN Ended("panic", <<>>, <<"input">>, <<>>)
    ELSE Ended("ret", emit(from_tokens(raw, kind)), <<"input", "output">>, <<>>)

WrapEntries ==
    [ label : {sBuild}, file : {sFile}, modpath : {sCrateM}, macro_name : {sFoo, sFo} ]

InCount == {"or_insert", "lock", "load", "store", "read"}

\* a slip in line 388: count is called only when PROC_DEBUG_FLAGS is set
Call_CountsOnlyWhenConfigured(t) ==
    /\ exit_code = -1
    /\ tpc[t] = "idle" /\ ncalls[t] < MaxCalls
    /\ ncalls' = [ncalls EXCEPT ![t] = @ + 1]
    /\ tpc' = [tpc EXCEPT ![t] = IF env.set THEN "or_insert" ELSE "body"]
    /\ UNCHANGED <<counter, holder, tmp, seq_n, env, stdout, stderr, last, assigned,
                   exit_code>>
    /\ UNCHANGED nonWrVars

\* line 388: proc_wrapper is entered and calls count
Call(t) ==
    /\ exit_code = -1
    /\ tpc[t] = "idle" /\ ncalls[t] < MaxCalls
    /\ ncalls' = [ncalls EXCEPT ![t] = @ + 1]
    /\ tpc' = [tpc EXCEPT ![t] = "or_insert"]
    /\ UNCHANGED <<counter, holder, tmp, seq_n, env, stdout, stderr, last, assigned,
                   exit_code>>
    /\ UNCHANGED nonWrVars

\* line 362
CountOrInsert(t) ==
    /\ exit_code = -1
    /\ tpc[t] = "or_insert"
    /\ counter' = IF counter = -1 THEN 0 ELSE counter
    /\ tpc' = [tpc EXCEPT ![t] = "lock"]
    /\ UNCHANGED <<holder, tmp, seq_n, ncalls, env, stdout, stderr, last, assigned,
                   exit_code>>
    /\ UNCHANGED nonWrVars

\* a slip in line 363: the counter is used without taking the lock
CountLock_NoMutex(t) ==
    /\ exit_code = -1
    /\ tpc[t] = "lock"
    /\ tpc' = [tpc EXCEPT ![t] = "load"]
    /\ UNCHANGED <<counter, holder, tmp, seq_n, ncalls, env, stdout, stderr, last,
                   assigned, exit_code>>
    /\ UNCHANGED nonWrVars

\* line 363: lock() blocks while another thread holds the Mutex
CountLock(t) ==
    /\ exit_code = -1
    /\ tpc[t] = "lock" /\ holder = 0
    /\ holder' = t
    /\ tpc' = [tpc EXCEPT ![t] = "load"]
    /\ UNCHANGED <<counter, tmp, seq_n, ncalls, env, stdout, stderr, last, assigned,
                   exit_code>>
    /\ UNCHANGED nonWrVars

\* line 364, the read of `*n += 1`
CountLoad(t) ==
    /\ exit_code = -1
    /\ tpc[t] = "load"
    /\ tmp' = [tmp EXCEPT ![t] = counter]
    /\ tpc' = [tpc EXCEPT ![t] = "store"]
    /\ UNCHANGED <<counter, holder, seq_n, ncalls, env, stdout, stderr, last, assigned,
                   exit_code>>
    /\ UNCHANGED nonWrVars

\* line 364, the write of `*n += 1`
CountStore(t) ==
    /\ exit_code = -1
    /\ tpc[t] = "store"
    /\ counter' = tmp[t] + 1
    /\ tmp' = [tmp EXCEPT ![t] = 0]
    /\ tpc' = [tpc EXCEPT ![t] = "read"]
    /\ UNCHANGED <<holder, seq_n, ncalls, env, stdout, stderr, last, assigned,
                   exit_code>>
    /\ UNCHANGED nonWrVars

\* lines 365-366: the value is read and the guard is dropped
CountRet(t) ==
    /\ exit_code = -1
    /\ tpc[t] = "read"
    /\ seq_n' = [seq_n EXCEPT ![t] = counter]
    /\ assigned' = [k \in DOMAIN assigned \cup {counter} |->
                       IF k \in DOMAIN assigned
                       THEN assigned[k] + (IF k = counter THEN 1 ELSE 0)
                       ELSE 1]
    /\ holder' = IF holder = t THEN 0 ELSE holder
    /\ tpc' = [tpc EXCEPT ![t] = "body"]
    /\ UNCHANGED <<counter, tmp, ncalls, env, stdout, stderr, last, exit_code>>
    /\ UNCHANGED nonWrVars

\* lines 389-418: the thunk runs, then the rest of proc_wrapper
Body(t) ==
    /\ exit_code = -1
    /\ tpc[t] = "body"
    /\ \E f \in ItemFns, entry \in WrapEntries, raw \in ThunkOutputs :
         LET kind == check_macro_kind(f.attrs)[1]
             r == WrapperBody(entry, kind, MacroInputsLen(f), raw, env, seq_n[t])
         IN  /\ last' = [kind |-> kind, n |-> seq_n[t], raw |-> raw,
                         outcome |-> r.outcome, out |-> r.out, wrote |-> r.wrote,
                         wrote_err |-> r.wrote_err, thunk_runs |-> 1]
             /\ stdout' = stdout \o r.wrote
             /\ stderr' = stderr \o r.wrote_err
             /\ exit_code' = IF r.outcome = "exit" THEN from_env(env).code ELSE exit_code
    /\ tpc' = [tpc EXCEPT ![t] = "idle"]
    /\ UNCHANGED <<counter, holder, tmp, seq_n, ncalls, env, assigned>>
    /\ UNCHANGED nonWrVars

InitWrap ==
    /\ counter = -1 /\ holder = 0
    /\ tpc = [t \in Threads |-> "idle"]
    /\ tmp = [t \in Threads |-> 0]
    /\ seq_n = [t \in Threads |-> 0]
    /\ ncalls = [t \in Threads |-> 0]
    /\ env \in Envs
    /\ stdout = <<>> /\ stderr = <<>>
    /\ last = NoLast
    /\ assigned = [k \in {} |-> 0]
    /\ exit_code = -1
    /\ IdleFs /\ IdleRs /\ IdleFl /\ IdleTr /\ IdleCl /\ IdleSb

NextWrap ==
    \E t \in Threads :
        \/ Call(t) \/ CountOrInsert(t) \/ CountLock(t) \/ CountLoad(t)
        \/ CountStore(t) \/ CountRet(t) \/ Body(t)

SpecWrap == InitWrap /\ [][NextWrap]_vars

RECURSIVE SumTo(_, _)
SumTo(f, n) == IF n = 0 THEN 0 ELSE f[n] + SumTo(f, n - 1)

\* the calls of count that have returned
CountReturns ==
    SumTo([t \in Threads |-> IF tpc[t] \in InCount THEN ncalls[t] - 1 ELSE ncalls[t]],
          NThreads)

\* C6: the sequence numbers count has returned to the N calls so far, made
\* from any number of threads in any interleaving, are 1..N, each returned once.
C6_SequenceNumbersDistinctNoGaps ==
    /\ DOMAIN assigned = 1..CountReturns
    /\ \A k \in DOMAIN assigned : assigned[k] = 1

\* every call of every thread has its number, and one thread waited for the
\* Mutex the other held
C6_Witness ==
    /\ \A t \in Threads : ncalls[t] = MaxCalls /\ tpc[t] \notin InCount
    /\ DOMAIN assigned = 1..(NThreads * MaxCalls)
    /\ seq_n[1] < seq_n[2]

\* C7: with PROC_DEBUG_FLAGS absent, a call of proc_wrapper returns the tokens
\* the thunk produced and writes nothing to standard output or standard error.
C7_TransparentWithoutFlags ==
    (last.outcome # "" /\ ~env.set) =>
        /\ last.outcome = "ret"
        /\ last.out = last.raw
        /\ last.wrote = <<>> /\ last.wrote_err = <<>>
        /\ stdout = <<>> /\ stderr = <<>>

\* a function-like macro whose output would be re-emitted differently if it
\* were displayed
C7_Witness ==
    /\ ~env.set /\ last.outcome = "ret" /\ last.kind = "function"
    /\ last.raw = <<Group("none", <<Ident("x")>>)>>
    /\ emit(from_tokens(last.raw, last.kind)) # last.raw
    /\ \A t \in Threads : ncalls[t] = MaxCalls /\ tpc[t] = "idle"

\* C8 (as claimed): with a Filter Query in PROC_DEBUG_FLAGS, a call of
\* proc_wrapper with any kind the attribute macro passes returns a token stream.
C8_DisplayNeverFailsTheCall ==
    (last.outcome # "" /\ env.set /\ env.parse = "args") => last.outcome = "ret"

(***************************************************************************)
(* The truncator: simplify_and_replace and unreplace.                      *)
(* A token of the input carries its span in the field `sp`; a token made   *)
(* by quote! or Group::new has the call-site span and no such field.       *)
(***************************************************************************)
\* __proc_debug_ellipsis! {}
Ellipsis == <<Ident("__proc_debug_ellipsis"), Punct("!"), Group("brace", <<>>)>>
\* __proc_debug_dollar_crate! {}
DollarCrate == <<Ident("__proc_debug_dollar_crate"), Punct("!"), Group("brace", <<>>)>>
\* the tokens of `...`
EllipsisMarker == <<Punct("."), Punct("."), Punct(".")>>
\* the tokens of `$crate`, as the renderer prints them
SelfReference == <<Ident("$crate")>>

\* quote_spanned!(tok.span() => tokens)
Spanned(tokens, tok) ==
    IF "sp" \in DOMAIN tok
    THEN [n \in DOMAIN tokens |->
            [k |-> tokens[n].k, s |-> tokens[n].s, ts |-> tokens[n].ts, sp |-> tok.sp]]
    ELSE tokens

RECURSIVE simplify_and_replace_NoBaseCase(_, _)
RECURSIVE simplify_and_replace(_, _)
RECURSIVE SimplifyLoop_DepthReversed(_, _, _)
RECURSIVE SimplifyLoop_CutsOneLate(_, _, _)
RECURSIVE SimplifyLoop(_, _, _)

\* a slip in the recursion of line 84: the inner level gets the budget that
\* was spent instead of the budget that is left
SimplifyLoop_DepthReversed(tokens, depth, count) ==
    IF tokens = <<>> THEN <<>>
    ELSE LET token == Head(tokens) IN
         IF token.k = "group"
         THEN <<Group(token.s, simplify_and_replace(token.ts, MaxDepthArg + 1 - depth))>>
              \o SimplifyLoop_DepthReversed(Tail(tokens), depth, count)
         ELSE IF token.k = "punct" /\ token.s = ";"
         THEN IF count + 1 >= depth
              THEN <<token>> \o Spanned(Ellipsis, token)
              ELSE <<token>> \o SimplifyLoop_DepthReversed(Tail(tokens), depth, count + 1)
         ELSE IF token.k = "ident" /\ token.s = "$crate"
         THEN Spanned(DollarCrate, token)
              \o SimplifyLoop_DepthReversed(Tail(tokens), depth, count)
         ELSE <<token>> \o SimplifyLoop_DepthReversed(Tail(tokens), depth, count)

\* a slip in line 93: `count > depth`, so the cut comes one terminator late
SimplifyLoop_CutsOneLate(tokens, depth, count) ==
    IF tokens = <<>> THEN <<>>
    ELSE LET token == Head(tokens) IN
         IF token.k = "group"
         THEN <<Group(token.s, simplify_and_replace(token.ts, depth - 1))>>
              \o SimplifyLoop_CutsOneLate(Tail(tokens), depth, count)
         ELSE IF token.k = "punct" /\ token.s = ";"
         THEN IF count + 1 > depth
              THEN <<token>> \o Spanned(Ellipsis, token)
              ELSE <<token>> \o SimplifyLoop_CutsOneLate(Tail(tokens), depth, count + 1)
         ELSE IF token.k = "ident" /\ token.s = "$crate"
         THEN Spanned(DollarCrate, token)
              \o SimplifyLoop_CutsOneLate(Tail(tokens), depth, count)
         ELSE <<token>> \o SimplifyLoop_CutsOneLate(Tail(tokens), depth, count)

\* lines 81-105: the loop over the tokens not yet visited, `count` terminators
\* seen so far
SimplifyLoop(tokens, depth, count) ==
    IF tokens = <<>> THEN <<>>
    ELSE LET token == Head(tokens) IN
         IF token.k = "group"
         THEN <<Group(token.s, simplify_and_replace(token.ts, depth - 1))>>
              \o SimplifyLoop(Tail(tokens), depth, count)
         ELSE IF token.k = "punct" /\ token.s = ";"
         THEN IF count + 1 >= depth
              THEN <<token>> \o Spanned(Ellipsis, token)
              ELSE <<token>> \o SimplifyLoop(Tail(tokens), depth, count + 1)
         ELSE IF token.k = "ident" /\ token.s = "$crate"
         THEN Spanned(DollarCrate, token) \o SimplifyLoop(Tail(tokens), depth, count)
         ELSE <<token>> \o SimplifyLoop(Tail(tokens), depth, count)

\* a slip in lines 76-79: the test of depth = 0 is missing
simplify_and_replace_NoBaseCase(tokens, depth) == SimplifyLoop(tokens, depth, 0)

\* lines 74-107
simplify_and_replace(tokens, depth) ==
    IF depth = 0 THEN Ellipsis ELSE SimplifyLoop(tokens, depth, 0)

\* lines 113-120: the front of the queue is a name, `!` and a brace group
IsBraceCall(tokens) ==
    /\ Len(tokens) >= 3
    /\ tokens[1].k = "ident"
    /\ tokens[2].k = "punct" /\ tokens[2].s = "!"
    /\ tokens[3].k = "group" /\ tokens[3].s = "brace"

RECURSIVE unreplace_Shallow(_)
RECURSIVE unreplace(_)

\* a slip in lines 142-144: groups are copied without being scanned
unreplace_Shallow(tokens) ==
    IF tokens = <<>> THEN <<>>
    ELSE LET token == Head(tokens) IN
         IF IsBraceCall(tokens) /\ token.s = "__proc_debug_ellipsis"
         THEN Spanned(EllipsisMarker, token)
              \o unreplace_Shallow(SubSeq(tokens, 4, Len(tokens)))
         ELSE IF IsBraceCall(tokens) /\ token.s = "__proc_debug_dollar_crate"
         THEN Spanned(SelfReference, token)
              \o unreplace_Shallow(SubSeq(tokens, 4, Len(tokens)))
         ELSE <<token>> \o unreplace_Shallow(Tail(tokens))

\* lines 109-150
unreplace(tokens) ==
    IF tokens = <<>> THEN <<>>
    ELSE LET token == Head(tokens) IN
         IF IsBraceCall(tokens) /\ token.s = "__proc_debug_ellipsis"
         THEN Spanned(EllipsisMarker, token) \o unreplace(SubSeq(tokens, 4, Len(tokens)))
         ELSE IF IsBraceCall(tokens) /\ token.s = "__proc_debug_dollar_crate"
         THEN Spanned(SelfReference, token) \o unreplace(SubSeq(tokens, 4, Len(tokens)))
         ELSE IF token.k = "group"
         THEN <<Group(token.s, unreplace(token.ts))>> \o unreplace(Tail(tokens))
         ELSE <<token>> \o unreplace(Tail(tokens))

\* the streams given to the truncator
TruncLeaves ==
    { Ident("x"), Ident("$crate"), Ident("__proc_debug_ellipsis"),
      Punct(";"), Punct("!") }

InnerStreams ==
    SeqsUpTo(TruncLeaves, MaxTokens - 2)
    \cup { <<Punct(";"), Ident("x")>>, <<Ident("$crate"), Punct(";")>>,
           <<Punct(";"), Punct(";")>> }

NestedTokens ==
    { Group("brace", <<Group("paren", inner), Punct(";"), Ident("$crate")>>) :
        inner \in { <<>>, <<Ident("x")>>, <<Punct(";"), Ident("x")>> } }

TruncTokens ==
    TruncLeaves
    \cup { Group(d, inner) : d \in {"brace", "paren"}, inner \in InnerStreams }
    \cup NestedTokens

\* every token gets its position in the input as its span
RECURSIVE Tag(_, _)
Tag(tokens, at) ==
    [n \in DOMAIN tokens |->
        [k |-> tokens[n].k, s |-> tokens[n].s,
         ts |-> Tag(tokens[n].ts, Append(at, n)), sp |-> Append(at, n)]]

\* the tokens without their spans
RECURSIVE Strip(_)
Strip(tokens) ==
    [n \in DOMAIN tokens |->
        [k |-> tokens[n].k, s |-> tokens[n].s, ts |-> Strip(tokens[n].ts)]]

\* the spans of the input found in a stream
RECURSIVE Spans(_)
Spans(tokens) ==
    UNION { (IF "sp" \in DOMAIN tokens[n] THEN {tokens[n].sp} ELSE {})
            \cup Spans(tokens[n].ts) : n \in DOMAIN tokens }

Simplify ==
    /\ tr_pc = "in"
    /\ tr_out' = simplify_and_replace(tr_tokens, tr_depth)
    /\ tr_pc' = "simplified"
    /\ UNCHANGED <<tr_tokens, tr_depth, tr_back>>
    /\ UNCHANGED nonTrVars

Unreplace ==
    /\ tr_pc = "simplified"
    /\ tr_back' = unreplace(tr_out)
    /\ tr_pc' = "unreplaced"
    /\ UNCHANGED <<tr_tokens, tr_depth, tr_out>>
    /\ UNCHANGED nonTrVars

InitTrunc ==
    /\ tr_tokens \in { Tag(t, <<>>) : t \in SeqsUpTo(TruncTokens, MaxTokens) }
    /\ tr_depth \in 0..MaxDepthArg
    /\ tr_out = <<>> /\ tr_back = <<>>
    /\ tr_pc = "in"
    /\ IdleFs /\ IdleRs /\ IdleWr /\ IdleFl /\ IdleCl /\ IdleSb

NextTrunc == Simplify \/ Unreplace

SpecTrunc == InitTrunc /\ [][NextTrunc]_vars

\* C11: with depth 0, simplify_and_replace returns exactly the ellipsis
\* placeholder call, whatever the input, and no token of the input.
C11_DepthZeroIsOnePlaceholder ==
    (tr_pc # "in" /\ tr_depth = 0) => (tr_out = Ellipsis /\ Spans(tr_out) = {})

\* a stream of three tokens with nested groups, cut at depth 0
C11_Witness ==
    /\ tr_pc = "simplified" /\ tr_depth = 0
    /\ Len(tr_tokens) = MaxTokens
    /\ \E n \in DOMAIN tr_tokens : Strip(<<tr_tokens[n]>>)[1] \in NestedTokens
    /\ tr_out = Ellipsis

\* a call `name ! { .. }` of one of the two reserved names, at any level
RECURSIVE HasReservedCall(_)
HasReservedCall(tokens) ==
    \/ \E n \in DOMAIN tokens :
          /\ IsBraceCall(SubSeq(tokens, n, Len(tokens)))
          /\ tokens[n].s \in {"__proc_debug_ellipsis", "__proc_debug_dollar_crate"}
    \/ \E n \in DOMAIN tokens : HasReservedCall(tokens[n].ts)

\* the stream with each cut region replaced by one ellipsis marker: the whole
\* content of a level entered with no depth left, and what follows the
\* depth-th terminator of a level
RECURSIVE CutFrom(_, _, _)
RECURSIVE CutAt(_, _)
CutFrom(tokens, depth, count) ==
    IF tokens = <<>> THEN <<>>
    ELSE LET token == Head(tokens) IN
         IF token.k = "group"
         THEN <<Group(token.s, CutAt(token.ts, depth - 1))>>
              \o CutFrom(Tail(tokens), depth, count)
         ELSE IF token = Punct(";") /\ count + 1 = depth
         THEN <<token>> \o EllipsisMarker
         ELSE <<token>>
              \o CutFrom(Tail(tokens), depth, IF token = Punct(";") THEN count + 1 ELSE count)

CutAt(tokens, depth) == IF depth = 0 THEN EllipsisMarker ELSE CutFrom(tokens, depth, 0)

\* C12: for a stream with no call of the two reserved names and a depth of at
\* least 1, unreplace(simplify_and_replace(T, d)) is T with each cut region
\* replaced by one ellipsis marker: tokens, order and delimiters above the cuts
\* are those of T, and every `$crate` above the cuts is back.
C12_TruncateThenUnreplace ==
    (tr_pc = "unreplaced" /\ tr_depth >= 1 /\ ~HasReservedCall(tr_tokens)) =>
        Strip(tr_back) = CutAt(Strip(tr_tokens), tr_depth)

\* a stream with `$crate` above and below a cut inside a nested group
C12_Witness ==
    /\ tr_pc = "unreplaced" /\ tr_depth = 2 /\ ~HasReservedCall(tr_tokens)
    /\ Strip(tr_tokens) =
         << Ident("$crate"),
            Group("brace", <<Group("paren", <<Punct(";"), Ident("x")>>),
                             Punct(";"), Ident("$crate")>>),
            Ident("__proc_debug_ellipsis") >>
    /\ Strip(tr_back) =
         << Ident("$crate"),
            Group("brace", <<Group("paren", EllipsisMarker), Punct(";")>>
                           \o EllipsisMarker),
            Ident("__proc_debug_ellipsis") >>

\* C13: the tokens of T (told apart by their spans) that
\* simplify_and_replace(T, d2) keeps include those that
\* simplify_and_replace(T, d1) keeps, for every d1 <= d2.
C13_DeeperKeepsMore ==
    tr_pc # "in" =>
        \A d1 \in 0..tr_depth :
            Spans(simplify_and_replace(tr_tokens, d1)) \subseteq Spans(tr_out)

\* a stream of which depth 1, 2 and 3 each keep strictly more
C13_Witness ==
    /\ tr_pc = "simplified" /\ tr_depth = MaxDepthArg
    /\ \A d1 \in 1..tr_depth :
          /\ Spans(simplify_and_replace(tr_tokens, d1 - 1))
               \subseteq Spans(simplify_and_replace(tr_tokens, d1))
          /\ Spans(simplify_and_replace(tr_tokens, d1 - 1))
               # Spans(simplify_and_replace(tr_tokens, d1))

(***************************************************************************)
(* One call of proc_wrapper, statement by statement.                       *)
(***************************************************************************)
DefaultDepth == 4
\* usize::MAX, as far as the integers of the checker reach: no stream has
\* that many levels or terminators
UsizeMax == 2147483647

\* a slip in lines 398-402: a given depth is used even when verbose is on
DepthOf_GivenDepthFirst(a) ==
    IF Len(a.depth) = 1 THEN a.depth[1]
    ELSE IF a.verbose THEN UsizeMax ELSE DefaultDepth

\* lines 398-402
DepthOf(a) ==
    IF a.verbose THEN UsizeMax
    ELSE IF Len(a.depth) = 1 THEN a.depth[1] ELSE DefaultDepth

CallEnvs ==
    Envs \cup
    { [set |-> TRUE, parse |-> "args",
       args |-> [NoArgs EXCEPT !.all = TRUE, !.depth = <<1>>]],
      [set |-> TRUE, parse |-> "args",
       args |-> [NoArgs EXCEPT !.all = TRUE, !.depth = <<1>>, !.verbose = TRUE]] }

\* what the thunk returns, for the calls followed statement by statement
CallOutputs ==
    ThunkOutputs \cup
    { <<Ident("fn"), Ident("f"), Group("paren", <<>>),
        Group("brace", <<Ident("$crate"), Punct(";"), Ident("x"), Punct(";")>>)>>,
      \* five statements `1;`
      [n \in 1..10 |-> IF n % 2 = 1 THEN Lit("1") ELSE Punct(";")],
      <<>>,
      <<Ident("Foo")>>,
      <<Group("paren", <<>>)>>,
      <<Ident("fn"), Ident("f"), Group("paren", <<>>), Punct(";")>>,
      <<Ident("static"), Ident("X"), Punct(":"), Ident("u8"), Punct(";")>> }

CallKind == check_macro_kind(c_in.f.attrs)[1]

CEnd(outcome, out) == [outcome |-> outcome, out |-> out]

\* line 389: let ret = f();
CallThunk ==
    /\ c_pc = "thunk"
    /\ c_ret' = c_in.raw
    /\ c_ev' = Append(c_ev, "thunk")
    /\ c_pc' = "from_env"
    /\ UNCHANGED <<c_in, c_env, c_args, c_output, c_shown, c_res>>
    /\ UNCHANGED nonClVars

\* line 390, and lines 416-418 when from_env returns None
CallFromEnv ==
    /\ c_pc = "from_env"
    /\ LET fe == from_env(c_env) IN
       CASE fe.tag = "none" ->
              /\ c_pc' = "returned" /\ c_res' = CEnd("ret", c_ret)
              /\ UNCHANGED <<c_args, c_ev>>
         [] fe.tag = "exit" ->
              /\ c_pc' = "exited" /\ c_res' = CEnd("exit", <<fe.code>>)
              /\ c_ev' = Append(c_ev, "stderr")
              /\ UNCHANGED c_args
         [] fe.tag = "some" ->
              /\ c_pc' = "check_filter" /\ c_args' = fe.args
              /\ UNCHANGED <<c_res, c_ev>>
    /\ UNCHANGED <<c_in, c_env, c_ret, c_output, c_shown>>
    /\ UNCHANGED nonClVars

\* line 391, and lines 413-415 when the filter fails
CallCheckFilter ==
    /\ c_pc = "check_filter"
    /\ IF check_filter(c_in.entry, c_args, c_in.n)
       THEN /\ c_ev' = Append(c_ev, "pass")
            /\ c_pc' = "show_macro_call"
            /\ UNCHANGED c_res
       ELSE /\ c_ev' = Append(c_ev, "fail")
            /\ c_pc' = "returned"
            /\ c_res' = CEnd("ret", c_ret)
    /\ UNCHANGED <<c_in, c_env, c_ret, c_args, c_output, c_shown>>
    /\ UNCHANGED nonClVars

\* line 392
CallShowMacroCall ==
    /\ c_pc = "show_macro_call"
    /\ IF ShowMacroCallPanics(CallKind, MacroInputsLen(c_in.f))
       THEN c_pc' = "panicked" /\ c_res' = CEnd("panic", <<>>) /\ UNCHANGED c_ev
       ELSE c_pc' = "from_tokens" /\ c_ev' = Append(c_ev, "input") /\ UNCHANGED c_res
    /\ UNCHANGED <<c_in, c_env, c_ret, c_args, c_output, c_shown>>
    /\ UNCHANGED nonClVars

\* lines 393-395
CallFromTokens ==
    /\ c_pc = "from_tokens"
    /\ IF MacroKindFromStrOk(CallKind)
       THEN /\ c_output' = <<from_tokens(c_ret, CallKind)>>
            /\ c_pc' = "show_macro_output"
            /\ UNCHANGED c_res
       ELSE /\ c_pc' = "panicked" /\ c_res' = CEnd("panic", <<>>)
            /\ UNCHANGED c_output
    /\ UNCHANGED <<c_in, c_env, c_ret, c_args, c_shown, c_ev>>
    /\ UNCHANGED nonClVars

\* lines 396-411
CallShowMacroOutput ==
    /\ c_pc = "show_macro_output"
    /\ c_shown' = unreplace(simplify_and_replace(c_ret, DepthOf(c_args)))
    /\ c_ev' = Append(c_ev, "output")
    /\ c_pc' = "emit"
    /\ UNCHANGED <<c_in, c_env, c_ret, c_args, c_output, c_res>>
    /\ UNCHANGED nonClVars

\* line 412
CallEmit ==
    /\ c_pc = "emit"
    /\ c_res' = CEnd("ret", emit(c_output[1]))
    /\ c_pc' = "returned"
    /\ UNCHANGED <<c_in, c_env, c_ret, c_args, c_output, c_shown, c_ev>>
    /\ UNCHANGED nonClVars

InitCall ==
    /\ c_in \in [ f : ItemFns, entry : WrapEntries, raw : CallOutputs, n : 1..MaxCalls ]
    /\ c_env \in CallEnvs
    /\ c_pc = "thunk"
    /\ c_ret = <<>> /\ c_args = <<>> /\ c_output = <<>> /\ c_shown = <<>>
    /\ c_ev = <<>> /\ c_res = <<>>
    /\ IdleFs /\ IdleRs /\ IdleWr /\ IdleFl /\ IdleTr /\ IdleSb

NextCall ==
    \/ CallThunk \/ CallFromEnv \/ CallCheckFilter \/ CallShowMacroCall
    \/ CallFromTokens \/ CallShowMacroOutput \/ CallEmit

SpecCall == InitCall /\ [][NextCall]_vars

CallEnded == c_pc \in {"returned", "exited", "panicked"}

Occurrences(ev, x) == Cardinality({ k \in DOMAIN ev : ev[k] = x })

Rendered(ev) == { ev[k] : k \in DOMAIN ev } \cap {"input", "output"}

\* C14 (as claimed): the thunk runs exactly once per call on every path, and
\* before the filter is evaluated and before anything is written; when a
\* Filter Query is configured and the entry fails it, the thunk's result is
\* returned as it is and nothing is rendered; when the entry passes, the input
\* block and the output block are rendered and the re-emission of the
\* classified output is returned.
C14_ThunkOnceThenFilterThenRender ==
    /\ Occurrences(c_ev, "thunk") <= 1
    /\ c_ev # <<>> => c_ev[1] = "thunk"
    /\ CallEnded =>
          /\ Occurrences(c_ev, "thunk") = 1
          /\ Occurrences(c_ev, "fail") = 1 =>
                (c_res = CEnd("ret", c_in.raw) /\ Rendered(c_ev) = {})
          /\ Occurrences(c_ev, "pass") = 1 =>
                /\ Rendered(c_ev) = {"input", "output"}
                /\ c_res = CEnd("ret", emit(from_tokens(c_in.raw, CallKind)))

\* C15 (as claimed): a help request ends the process with status zero and a
\* malformed argument list with a non-zero status, each after a write to the
\* error stream.
C15_HelpExitsZeroMalformedNonZero ==
    /\ (CallEnded /\ c_env.set /\ c_env.parse = "help") =>
          (c_res = CEnd("exit", <<0>>) /\ c_ev[Len(c_ev)] = "stderr")
    /\ (CallEnded /\ c_env.set /\ c_env.parse = "malformed") =>
          (c_res.outcome = "exit" /\ c_res.out # <<0>> /\ c_ev[Len(c_ev)] = "stderr")

\* the positions of the statement terminators of the input found at one level
Terms(tokens) ==
    { n \in DOMAIN tokens :
        tokens[n].k = "punct" /\ tokens[n].s = ";" /\ "sp" \in DOMAIN tokens[n] }

\* the position of the k-th terminator of a level that has at least k
KthTerm(tokens, k) ==
    CHOOSE n \in Terms(tokens) : Cardinality({ m \in Terms(tokens) : m <= n }) = k

\* the groups of a level, in order: those of the input carry a span, those
\* simplify_and_replace builds do not
RECURSIVE GroupsOf(_, _)
GroupsOf(tokens, spanned) ==
    IF tokens = <<>> THEN <<>>
    ELSE (IF Head(tokens).k = "group" /\ ("sp" \in DOMAIN Head(tokens)) = spanned
          THEN <<Head(tokens)>> ELSE <<>>)
         \o GroupsOf(Tail(tokens), spanned)

\* what C22 says of one level entered with remaining depth k, and of the
\* levels below it
RECURSIVE LevelCut(_, _, _)
LevelCut(in, out, k) ==
    IF k = 0 THEN out = Ellipsis
    ELSE LET cutting == Cardinality(Terms(in)) >= k
             c == IF cutting THEN KthTerm(in, k) ELSE Len(in)
             gi == GroupsOf(SubSeq(in, 1, c), TRUE)
             go == GroupsOf(out, FALSE)
         IN  /\ Cardinality(Terms(out)) <= k
             /\ cutting =>
                  /\ Len(out) >= 4
                  /\ out[Len(out) - 3] = in[c]
                  /\ Strip(SubSeq(out, Len(out) - 2, Len(out))) = Ellipsis
                  /\ \A n \in DOMAIN out :
                        "sp" \in DOMAIN out[n] => out[n].sp[Len(out[n].sp)] <= c
             /\ Len(go) = Len(gi)
             /\ \A m \in DOMAIN gi :
                  go[m].s = gi[m].s /\ LevelCut(gi[m].ts, go[m].ts, k - 1)

\* C22: in the output of simplify_and_replace with depth d >= 1, at every level
\* entered with remaining depth k >= 1 at most k terminators of the level are
\* emitted; a level with at least k terminators ends with its k-th terminator
\* followed by the placeholder, and no later token of the level is emitted;
\* terminators inside groups do not count for the level around them; every
\* group is processed with remaining depth k - 1.
C22_CutAfterKthTerminatorPerLevel ==
    (tr_pc # "in" /\ tr_depth >= 1) => LevelCut(tr_tokens, tr_out, tr_depth)

\* depth 2: the group is cut after its first terminator, and the level around
\* it after its own second one, the two terminators of the group not counted
C22_Witness ==
    /\ tr_pc = "simplified" /\ tr_depth = 2
    /\ Strip(tr_tokens) = <<Group("brace", <<Punct(";"), Punct(";")>>),
                            Punct(";"), Punct(";")>>
    /\ Strip(tr_out) = <<Group("brace", <<Punct(";")>> \o Ellipsis),
                         Punct(";"), Punct(";")>> \o Ellipsis

\* the tokens of `...` occur in a stream, at any level
RECURSIVE HasMarker(_)
HasMarker(tokens) ==
    \E n \in DOMAIN tokens :
        \/ /\ n + 2 <= Len(tokens)
           /\ SubSeq(tokens, n, n + 2) = EllipsisMarker
        \/ HasMarker(tokens[n].ts)

\* C23: what proc_wrapper shows is the output truncated at depth 4 when no
\* depth is given and verbose is off, at the given depth when one is given and
\* verbose is off, and not truncated at all when verbose is on, a depth being
\* given or not: the shown tokens then hold no ellipsis marker.
C23_DepthDefaultGivenOrUnlimited ==
    Occurrences(c_ev, "output") = 1 =>
        /\ (~c_args.verbose /\ c_args.depth = <<>>) =>
              c_shown = unreplace(simplify_and_replace(c_ret, 4))
        /\ (~c_args.verbose /\ c_args.depth # <<>>) =>
              c_shown = unreplace(simplify_and_replace(c_ret, c_args.depth[1]))
        /\ c_args.verbose => (~HasMarker(c_shown) /\ c_shown = c_ret)

\* verbose with a depth of 1 given: five statements, which depth 4 and depth 1
\* both cut, are shown whole
C23_Witness ==
    /\ c_pc = "returned" /\ Occurrences(c_ev, "output") = 1
    /\ c_args.verbose /\ c_args.depth = <<1>>
    /\ Len(c_ret) = 10 /\ c_shown = c_ret
    /\ HasMarker(unreplace(simplify_and_replace(c_ret, 4)))
    /\ HasMarker(unreplace(simplify_and_replace(c_ret, 1)))
    /\ unreplace(simplify_and_replace(c_ret, 1)) # unreplace(simplify_and_replace(c_ret, 4))

\* the acceptors in the order C24 gives
Acceptors ==
    <<"name", "type", "ImplItem", "TraitItem", "ForeignItem", "Item", "Stmt", "Other">>

\* acceptor a takes the whole stream; nonEmpty: a sequence acceptor refuses
\* the empty stream
AcceptedBy(a, tokens, kind, nonEmpty) ==
    CASE a = "name" -> kind = "function" /\ AcceptIdent(tokens)
      [] a = "type" -> kind = "function" /\ AcceptType(tokens)
      [] a = "Other" -> TRUE
      [] OTHER -> AcceptSeq(a, tokens) /\ (nonEmpty => tokens # <<>>)

FirstAcceptor(tokens, kind, nonEmpty) ==
    Acceptors[CHOOSE n \in DOMAIN Acceptors :
                /\ AcceptedBy(Acceptors[n], tokens, kind, nonEmpty)
                /\ \A m \in 1..(n - 1) : ~AcceptedBy(Acceptors[m], tokens, kind, nonEmpty)]

\* the categories of MacroOutput the acceptors stand for
Categories(a) ==
    CASE a = "name" -> {"Expr", "Type"}
      [] a = "type" -> {"Type"}
      [] OTHER -> {a}

\* C24 (as claimed): from_tokens returns one category, that of the first
\* acceptor in the order bare name and type (function-like only), then
\* non-empty sequences of impl members, trait members, foreign items, items and
\* statements, each taking the whole stream, and else the opaque fallback,
\* which re-emits the input as it is.
C24_FirstAcceptorOfNonEmptySequences ==
    c_output # <<>> =>
        /\ c_output[1].cat \in Categories(FirstAcceptor(c_ret, CallKind, TRUE))
        /\ c_output[1].cat = "Other" => emit(c_output[1]) = c_ret

\* C24 (amended): the same with sequences that may be empty, so that the empty
\* stream is classified as a sequence of impl members.
C24_FirstAcceptorOfSequences ==
    c_output # <<>> =>
        /\ c_output[1].cat \in Categories(FirstAcceptor(c_ret, CallKind, FALSE))
        /\ c_output[1].cat = "Other" => emit(c_output[1]) = c_ret

\* the empty output of an attribute macro is classified as impl members
C24_Witness ==
    /\ c_output # <<>> /\ c_ret = <<>> /\ CallKind = "attribute"
    /\ c_output[1].cat = "ImplItem"
    /\ FirstAcceptor(c_ret, CallKind, TRUE) = "Other"

(***************************************************************************)
(* The Filter Query of a run started by the subcommand: Arguments::get_env *)
(* builds PROC_DEBUG_FLAGS (src/cargo/main.rs:98-110), main sets it for    *)
(* the build (line 430), and in the build ProcDebugArgs::from_env splits   *)
(* and parses it (src/lib.rs:285-313) before check_filter reads the        *)
(* result.  A string is a tuple of one-character strings.                  *)
(***************************************************************************)
Quote == "\""

RECURSIVE QuoteAll(_, _)
\* lines 100-102 and 106-108: each value between two double quotes, nothing
\* in the value escaped
QuoteAll(prefix, values) ==
    IF values = <<>> THEN <<>>
    ELSE prefix \o <<Quote>> \o Head(values) \o <<Quote>> \o QuoteAll(prefix, Tail(values))

\* Arguments::get_env
get_env(a) ==
    <<"-", "a">>
        \o QuoteAll(<<" ", "-", "-", "p", "a", "t", "h", " ">>, a.path)
        \o (IF a.verbose THEN <<" ", "-", "v">> ELSE <<>>)
        \o QuoteAll(<<" ">>, a.keywords)

RECURSIVE SplitFrom(_, _, _, _, _, _)
\* shtring::split, for strings of spaces, double quotes and other characters:
\* words are separated by spaces outside quotes, the quotes are removed, and a
\* quote left open is an error
SplitFrom(str, k, cur, inWord, inQuote, acc) ==
    IF k > Len(str)
    THEN IF inQuote THEN [ok |-> FALSE, words |-> <<>>]
         ELSE [ok |-> TRUE, words |-> IF inWord THEN Append(acc, cur) ELSE acc]
    ELSE IF str[k] = Quote
         THEN SplitFrom(str, k + 1, cur, TRUE, ~inQuote, acc)
    ELSE IF str[k] = " " /\ ~inQuote
         THEN SplitFrom(str, k + 1, <<>>, FALSE, FALSE,
                        IF inWord THEN Append(acc, cur) ELSE acc)
    ELSE SplitFrom(str, k + 1, Append(cur, str[k]), TRUE, inQuote, acc)

\* src/lib.rs:287
shtring_split(str) == SplitFrom(str, 1, <<>>, FALSE, FALSE, <<>>)

Digits == <<"0", "1", "2", "3", "4", "5", "6", "7", "8", "9">>

DigitValue(c) == (CHOOSE d \in 1..10 : Digits[d] = c) - 1

RECURSIVE ParseUsize(_)
\* usize::from_str for the value of -c and -d: <<>> when it is not a number
ParseUsize(w) ==
    IF w = <<>> \/ \E k \in 1..Len(w) : \A d \in 1..10 : Digits[d] # w[k] THEN <<>>
    ELSE IF Len(w) = 1 THEN <<DigitValue(w[1])>>
    ELSE <<10 * ParseUsize(SubSeq(w, 1, Len(w) - 1))[1] + DigitValue(w[Len(w)])>>

OptAll == {<<"-", "a">>, <<"-", "-", "a", "l", "l">>}
OptVerbose == {<<"-", "v">>, <<"-", "-", "v", "e", "r", "b", "o", "s", "e">>}
OptPath == {<<"-", "p">>, <<"-", "-", "p", "a", "t", "h">>}
OptNot == {<<"-", "n">>, <<"-", "-", "n", "o", "t">>}
OptCount == {<<"-", "c">>, <<"-", "-", "c", "o", "u", "n", "t">>}
OptDepth == {<<"-", "d">>, <<"-", "-", "d", "e", "p", "t", "h">>}
OptHelp == {<<"-", "-", "h", "e", "l", "p">>}

RECURSIVE ParseFrom(_, _, _, _)
\* ProcDebugArgs::from_args as #[derive(FromArgs)] generates it from lines
\* 260-282: the switches -a and -v, the options -n, -p, -d and -c taking the
\* next word as their value, and the greedy positional `queries`, after whose
\* first word every word is a query
ParseFrom(words, k, ended, a) ==
    IF k > Len(words) THEN [outcome |-> "ok", args |-> a]
    ELSE LET w == words[k]
             hasValue == k + 1 <= Len(words)
             v == words[k + 1]
         IN  IF ended \/ w = <<>> \/ w[1] # "-"
             THEN ParseFrom(words, k + 1, TRUE, [a EXCEPT !.queries = Append(@, w)])
             ELSE IF w \in OptHelp THEN [outcome |-> "help", args |-> NoArgs]
             ELSE IF w = <<"-", "-">> THEN ParseFrom(words, k + 1, TRUE, a)
             ELSE IF w \in OptAll
                  THEN ParseFrom(words, k + 1, FALSE, [a EXCEPT !.all = TRUE])
             ELSE IF w \in OptVerbose
                  THEN ParseFrom(words, k + 1, FALSE, [a EXCEPT !.verbose = TRUE])
             ELSE IF w \in OptPath /\ hasValue
                  THEN ParseFrom(words, k + 2, FALSE, [a EXCEPT !.path = Append(@, v)])
             ELSE IF w \in OptNot /\ hasValue
                  THEN ParseFrom(words, k + 2, FALSE, [a EXCEPT !.not = Append(@, v)])
             ELSE IF w \in OptCount /\ hasValue /\ ParseUsize(v) # <<>>
                  THEN ParseFrom(words, k + 2, FALSE, [a EXCEPT !.count = ParseUsize(v)])
             ELSE IF w \in OptDepth /\ hasValue /\ ParseUsize(v) # <<>>
                  THEN ParseFrom(words, k + 2, FALSE, [a EXCEPT !.depth = ParseUsize(v)])
             ELSE [outcome |-> "err", args |-> NoArgs]

\* src/lib.rs:289
from_args(words) == ParseFrom(words, 1, FALSE, NoArgs)

\* what from_env finds when PROC_DEBUG_FLAGS holds the string: text the split
\* rejects (line 287), a help request or a malformed argument list (lines
\* 289-310), or a Filter Query
EnvOf(str) ==
    LET sp == shtring_split(str)
        pa == from_args(sp.words)
    IN  IF ~sp.ok THEN [set |-> TRUE, parse |-> "unsplittable", args |-> NoArgs]
        ELSE IF pa.outcome = "help" THEN [set |-> TRUE, parse |-> "help", args |-> NoArgs]
        ELSE IF pa.outcome = "err"
             THEN [set |-> TRUE, parse |-> "malformed", args |-> NoArgs]
        ELSE [set |-> TRUE, parse |-> "args", args |-> pa.args]

\* values a command line can give: plain words, a value holding a double
\* quote, and (after `--`) keywords that begin with a dash
wInject == <<"x", Quote, " ", "-", "c", " ", Quote, "0">>
wOpen == <<"x", Quote>>
wDashC == <<"-", "c">>
wZero == <<"0">>

CliPaths == {sFoo, sCrateM \o Sep \o sBar, wInject, wOpen}

CliKeywords == {<<>>, <<sBuild>>, <<sBar, sFoo>>, <<wDashC, wZero>>, <<sFoo, wDashC>>,
                <<wDashC>>}

CliArguments ==
    [ path : SeqsUpTo(CliPaths, MaxPatterns),
      verbose : BOOLEAN,
      keywords : CliKeywords ]

\* main, line 430: command.env("PROC_DEBUG_FLAGS", args.get_env())
SubGetEnv ==
    /\ s_pc = "cli"
    /\ s_flags' = get_env(s_cli)
    /\ s_pc' = "env"
    /\ UNCHANGED <<s_cli, f_entry, f_args, f_n, f_res>>
    /\ UNCHANGED nonSbVars

\* proc_wrapper in the build, line 390
SubFromEnv ==
    /\ s_pc = "env"
    /\ LET fe == from_env(EnvOf(s_flags)) IN
        /\ s_pc' = fe.tag
        /\ f_args' = fe.args
    /\ UNCHANGED <<s_cli, s_flags, f_entry, f_n, f_res>>
    /\ UNCHANGED nonSbVars

\* proc_wrapper in the build, line 391
SubCheckFilter ==
    /\ s_pc = "some"
    /\ f_res' = Verdict(check_filter(f_entry, f_args, f_n))
    /\ s_pc' = "done"
    /\ UNCHANGED <<s_cli, s_flags, f_entry, f_args, f_n>>
    /\ UNCHANGED nonSbVars

InitSub ==
    /\ s_cli \in CliArguments
    /\ s_flags = <<>>
    /\ s_pc = "cli"
    /\ f_entry \in Entries
    /\ f_n \in 1..MaxSeq
    /\ f_args = NoArgs
    /\ f_res = "none"
    /\ IdleFs /\ IdleRs /\ IdleWr /\ IdleTr /\ IdleCl

NextSub == SubGetEnv \/ SubFromEnv \/ SubCheckFilter

SpecSub == InitSub /\ [][NextSub]_vars

\* C26: in a run started by the subcommand, whatever --path values and
\* keywords the command line gave, every invocation that reaches check_filter
\* passes it.
C26_SubcommandQueryPassesEveryInvocation ==
    s_pc = "done" => f_res = "pass"

(***************************************************************************)
(* The sequence counter and the maximum count.                             *)
(***************************************************************************)
\* the calls of proc_wrapper whose `*n += 1` has been done
Incremented ==
    SumTo([t \in Threads |->
              IF tpc[t] \in {"or_insert", "lock", "load", "store"}
              THEN ncalls[t] - 1 ELSE ncalls[t]],
          NThreads)

\* C27: every call of proc_wrapper increments the counter once, whatever
\* PROC_DEBUG_FLAGS holds and whatever the filter answers; so with a maximum
\* count c at most c calls of the process are displayed, each among the first
\* c, and a later call returns the thunk's tokens and writes nothing.
C27_EveryCallCountsSoOnlyFirstCallsShow ==
    /\ (IF counter = -1 THEN 0 ELSE counter) = Incremented
    /\ (env.set /\ env.parse = "args" /\ env.args.count # <<>>) =>
          /\ Occurrences(stdout, "input") <= env.args.count[1]
          /\ last.wrote # <<>> => last.n <= env.args.count[1]
          /\ (last.outcome # "" /\ last.n > env.args.count[1]) =>
                /\ last.outcome = "ret" /\ last.out = last.raw
                /\ last.wrote = <<>> /\ last.wrote_err = <<>>

\* a maximum count of 2 and four calls: the first two were displayed, the
\* last one was not, although match-all is set
C27_Witness ==
    /\ env.set /\ env.parse = "args" /\ env.args.all /\ env.args.count = <<2>>
    /\ \A t \in Threads : ncalls[t] = MaxCalls /\ tpc[t] = "idle"
    /\ counter = NThreads * MaxCalls
    /\ Occurrences(stdout, "input") = 2 /\ Occurrences(stdout, "output") = 2
    /\ last.n = NThreads * MaxCalls /\ last.wrote = <<>> /\ last.out = last.raw

====
